---- MODULE Spec2Model ----
(***************************************************************************)
(* A model of the xschem-parser crate: the escape-aware scanner, the       *)
(* attribute extractor, the object parsers, the schematic assembler and    *)
(* the error model.  Inputs are sequences of one-character strings; a      *)
(* position is a 1-based index into the input, Len+1 meaning end of input. *)
(***************************************************************************)
EXTENDS Integers, Sequences, FiniteSets, TLC

VARIABLES
    input,    \* the buffer handed to the parser
    api,      \* "span" (LocatedSpan input, lib.rs from_str) or "str" (plain &str, the tests)
    pc,       \* position of the driver
    pos,      \* position of the remaining input of the top-level fold
    sch,      \* the in-flight Schematic of fold_many0
    stream,   \* history: the objects any_object returned so far, in source order,
              \* each with its tag letter and the position it starts at
    last,     \* history: what the last fold iteration found
    result    \* the value the entry point returned

vars == <<input, api, pc, pos, sch, stream, last, result>>

----------------------------------------------------------------------------
(* Character classes                                                       *)

Digit == {"0", "1", "2", "3", "4", "5", "6", "7", "8", "9"}

Alpha ==
    {"a", "b", "c", "d", "e", "f", "g", "h", "i", "j", "k", "l", "m",
     "n", "o", "p", "q", "r", "s", "t", "u", "v", "w", "x", "y", "z",
     "A", "B", "C", "D", "E", "F", "G", "H", "I", "J", "K", "L", "M",
     "N", "O", "P", "Q", "R", "S", "T", "U", "V", "W", "X", "Y", "Z"}

\* ASCII punctuation (the backquote, which a TLA+ string cannot hold, is left out).
Punctuation ==
    {"!", "\"", "#", "$", "%", "&", "'", "(", ")", "*", "+", ",", "-", ".",
     "/", ":", ";", "<", "=", ">", "?", "@", "[", "\\", "]", "^", "_",
     "{", "|", "}", "~"}

MultiSpace == {" ", "\t", "\r", "\n"}

Space == {" ", "\t"}

ESCAPED_CHARS == {"\\", "{", "}"}

ESCAPED_VALUE_CHARS == {"\\", "\""}

ESCAPE_CHAR == "\\"

is_key_char(c) == c \in Alpha \cup Digit \cup {"_"}

is_value_char(c) == c \in Alpha \cup Digit \cup Punctuation

KeyChars == {c \in Alpha \cup Digit \cup Punctuation : is_key_char(c)}

ValueChars == {c \in Alpha \cup Digit \cup Punctuation : is_value_char(c)}

----------------------------------------------------------------------------
(* Results and errors                                                      *)

Nil == <<>>

\* The element of a one-element set: Only({e(r) : r \in {v}}) is e with r
\* bound to the value v, v being computed once.
Only(S) == CHOOSE x \in S : TRUE

\* Error::from_error_kind: a leaf of a nom kind, no context.
from_error_kind(at, kind) ==
    [at |-> at, kind |-> [k |-> "Nom", v |-> kind], context |-> <<>>]

\* Error::from_char: the leaf remembers the expected character.
from_char(at, c) ==
    [at |-> at, kind |-> [k |-> "Char", v |-> c], context |-> <<>>]

\* Error::append keeps the error it is given.
append(at, kind, other) == other

\* Error::add_context pushes one frame at the back of the vector.
add_context(at, name, other) ==
    [other EXCEPT !.context = Append(@, [name |-> name, at |-> at])]

NoErr == from_error_kind(0, "None")

Ok(rest, out) == [tag |-> "Ok", pos |-> rest, out |-> out, err |-> NoErr]

Fail(tag, e) == [tag |-> tag, pos |-> 0, out |-> Nil, err |-> e]

\* nom's context combinator: a frame is added to an Error and to a Failure.
context(at, name, r) ==
    IF r.tag \in {"Error", "Failure"}
    THEN Fail(r.tag, add_context(at, name, r.err))
    ELSE r

\* cut left out: an Error stays an Error.
cut_left_out(r) == r

\* nom's cut combinator: an Error becomes a Failure.
cut(r) == IF r.tag = "Error" THEN Fail("Failure", r.err) ELSE r

\* The (I, ErrorKind) error of the attribute parsers: no context, the expected
\* character of char() is forgotten, append replaces the error.
TupleErr(at, kind) == [at |-> at, kind |-> kind]

TFail(tag, at, kind) == [tag |-> tag, pos |-> 0, out |-> Nil, err |-> TupleErr(at, kind)]

----------------------------------------------------------------------------
(* Spans                                                                   *)

\* The text t[a .. b-1] as the input type I sees it: a LocatedSpan carries
\* its offset in the buffer (and compares and hashes it), a &str does not.
\* base is the buffer offset of t[1].
MkSpan(a_api, base, t, a, b) ==
    [off |-> IF a_api = "span" THEN base + a - 1 ELSE 0,
     text |-> SubSeq(t, a, b - 1)]

\* First position >= p whose character is not in class S (Len+1 if none).
ScanWhile(t, p, S) ==
    LET stops == {i \in p..Len(t) : t[i] \notin S}
    IN  IF stops = {} THEN Len(t) + 1
        ELSE CHOOSE i \in stops : \A j \in stops : i <= j

\* First position >= p whose character is a key character (Len+1 if none).
ScanNonKey(t, p) ==
    LET stops == {i \in p..Len(t) : is_key_char(t[i])}
    IN  IF stops = {} THEN Len(t) + 1
        ELSE CHOOSE i \in stops : \A j \in stops : i <= j

----------------------------------------------------------------------------
(* escaped0                                                                *)

\* escapable with the double quote itself among the characters a backslash
\* escapes in a quoted value.
escapable_quote(t, q, which) ==
    IF q > Len(t) THEN 0
    ELSE IF which = "value"
    THEN IF t[q] \in {"\"", "\\", "{", "}"} THEN 1 ELSE 0
    ELSE IF t[q] \in ESCAPED_CHARS THEN 1 ELSE 0

\* escapable with the single backslash tried before backslash-quote.
escapable_backslash_first(t, q, which) ==
    IF q > Len(t) THEN 0
    ELSE IF which = "value"
    THEN IF t[q] \in {"\\", "{", "}"} THEN 1 ELSE 0
    ELSE IF t[q] \in ESCAPED_CHARS THEN 1 ELSE 0

\* The escapable parser after the control character, as the number of
\* characters it consumes at q (0: it fails).  For a quoted value it is
\* alt((tag(\"), tag(\), tag({), tag(}))); for a property string it is
\* one_of(\{}).
escapable(t, q, which) ==
    IF q > Len(t) THEN 0
    ELSE IF which = "value"
    THEN IF q + 1 <= Len(t) /\ t[q] = "\\" /\ t[q + 1] = "\"" THEN 2
         ELSE IF t[q] = "\\" THEN 1
         ELSE IF t[q] = "{" THEN 1
         ELSE IF t[q] = "}" THEN 1
         ELSE 0
    ELSE IF t[q] \in ESCAPED_CHARS THEN 1 ELSE 0

\* The normal parser none_of(excl) at i.
normal(t, i, excl) == i <= Len(t) /\ t[i] \notin excl

RECURSIVE escaped0_loop(_, _, _, _, _, _)
\* The while loop of escaped0 from position i; p0 is where the input began.
\* Returns [tag, pos, from, to, at]: on Ok the rest position and the bounds
\* [from, to) of the output, on Error the position the error carries.
escaped0_loop(t, p0, i, consumed_nothing, excl, which) ==
    IF i > Len(t)
    THEN [tag |-> "Ok", pos |-> Len(t) + 1, from |-> p0, to |-> Len(t) + 1, at |-> 0]
    ELSE IF normal(t, i, excl) /\ ~consumed_nothing
    THEN IF i + 1 > Len(t)
         THEN [tag |-> "Ok", pos |-> Len(t) + 1, from |-> p0, to |-> Len(t) + 1, at |-> 0]
         ELSE escaped0_loop(t, p0, i + 1, FALSE, excl, which)
    ELSE IF t[i] = ESCAPE_CHAR
    THEN IF 1 >= Len(t) - i + 1
         THEN [tag |-> "Error", pos |-> 0, from |-> 0, to |-> 0, at |-> p0]
         ELSE LET n == escapable(t, i + 1, which)
              IN  IF n = 0
                  THEN [tag |-> "Error", pos |-> 0, from |-> 0, to |-> 0, at |-> i]
                  ELSE IF i + 1 + n > Len(t)
                  THEN [tag |-> "Ok", pos |-> Len(t) + 1, from |-> p0,
                        to |-> Len(t) + 1, at |-> 0]
                  ELSE escaped0_loop(t, p0, i + 1 + n, FALSE, excl, which)
    ELSE [tag |-> "Ok", pos |-> i, from |-> p0, to |-> i, at |-> 0]

escaped0(t, p, excl, which) == escaped0_loop(t, p, p, FALSE, excl, which)

----------------------------------------------------------------------------
(* key, value, key_value, try_skip, attributes                             *)

\* context("key", take_while1(is_key_char)) with the (I, ErrorKind) error.
key(a_api, base, t, p) ==
    Only({IF e = p THEN TFail("Error", p, "TakeWhile1")
          ELSE [tag |-> "Ok", pos |-> e, out |-> MkSpan(a_api, base, t, p, e),
                err |-> TupleErr(0, "None")] :
          e \in {ScanWhile(t, p, KeyChars)}})

\* The quoted alternative of value with the two quotes kept in the value.
quoted_value_with_quotes(a_api, base, t, p) ==
    IF p <= Len(t) /\ t[p] = "\""
    THEN Only({IF r.tag = "Error" THEN TFail("Failure", r.at, "Escaped")
               ELSE IF r.pos <= Len(t) /\ t[r.pos] = "\""
               THEN [tag |-> "Ok", pos |-> r.pos + 1,
                     out |-> MkSpan(a_api, base, t, p, r.to + 1),
                     err |-> TupleErr(0, "None")]
               ELSE TFail("Failure", r.pos, "Char") :
               r \in {escaped0(t, p + 1, ESCAPED_VALUE_CHARS, "value")}})
    ELSE TFail("Error", p, "Char")

\* The quoted alternative of value: char('"') then, under cut, escaped0 and
\* the closing char('"').
quoted_value(a_api, base, t, p) ==
    IF p <= Len(t) /\ t[p] = "\""
    THEN Only({IF r.tag = "Error" THEN TFail("Failure", r.at, "Escaped")
               ELSE IF r.pos <= Len(t) /\ t[r.pos] = "\""
               THEN [tag |-> "Ok", pos |-> r.pos + 1,
                     out |-> MkSpan(a_api, base, t, r.from, r.to),
                     err |-> TupleErr(0, "None")]
               ELSE TFail("Failure", r.pos, "Char") :
               r \in {escaped0(t, p + 1, ESCAPED_VALUE_CHARS, "value")}})
    ELSE TFail("Error", p, "Char")

\* context("value", alt((quoted, take_while1(is_value_char)))).
value(a_api, base, t, p) ==
    Only({IF q.tag # "Error" THEN q
          ELSE IF e = p THEN TFail("Error", p, "Alt")
          ELSE [tag |-> "Ok", pos |-> e, out |-> MkSpan(a_api, base, t, p, e),
                err |-> TupleErr(0, "None")] :
          q \in {quoted_value(a_api, base, t, p)}, e \in {ScanWhile(t, p, ValueChars)}})

\* context("key_value", separated_pair(key, char('='), value)).
key_value(a_api, base, t, p) ==
    Only({IF k.tag # "Ok" THEN k
          ELSE IF ~(k.pos <= Len(t) /\ t[k.pos] = "=")
          THEN TFail("Error", k.pos, "Char")
          ELSE Only({IF v.tag # "Ok" THEN v
                     ELSE [tag |-> "Ok", pos |-> v.pos,
                           out |-> [k |-> k.out, v |-> v.out],
                           err |-> TupleErr(0, "None")] :
                     v \in {value(a_api, base, t, k.pos + 1)}}) :
          k \in {key(a_api, base, t, p)}})

\* try_skip that hands a Failure on with the character char() expected and
\* the frames the attribute parsers are named by.
try_skip_keeping_frames(base, r) ==
    IF r.tag = "Ok" THEN Ok(r.pos, [some |-> TRUE, kv |-> r.out])
    ELSE IF r.tag = "Error" THEN Ok(r.err.at, [some |-> FALSE, kv |-> Nil])
    ELSE Fail("Failure",
              add_context(base + r.err.at, "key_value",
                  add_context(base + r.err.at, "value",
                      from_char(base + r.err.at, "\""))))

\* try_skip that gives back what the parser consumed before its Error.
try_skip_rewinding(base, r) ==
    IF r.tag = "Ok" THEN Ok(r.pos, [some |-> TRUE, kv |-> r.out])
    ELSE IF r.tag = "Error" THEN Ok(1, [some |-> FALSE, kv |-> Nil])
    ELSE Fail("Failure", from_error_kind(base + r.err.at, r.err.kind))

\* try_skip(parser) applied to the result r of parser: Some on success, None
\* with the error's input as the rest on an Error, and a Failure rebuilt by
\* E::from_error_kind from the position and the nom kind alone.
try_skip(base, r) ==
    IF r.tag = "Ok" THEN Ok(r.pos, [some |-> TRUE, kv |-> r.out])
    ELSE IF r.tag = "Error" THEN Ok(r.err.at, [some |-> FALSE, kv |-> Nil])
    ELSE Fail("Failure", from_error_kind(base + r.err.at, r.err.kind))

\* HashMap::insert: the entry of an equal key is replaced, else one is added.
insert(attrs, k, v) == [x \in DOMAIN attrs \cup {k} |-> IF x = k THEN v ELSE attrs[x]]

EmptyMap == [x \in {} |-> Nil]

RECURSIVE attributes_loop(_, _, _, _, _)
\* The while loop of attributes from position p with the map built so far.
attributes_loop(a_api, base, t, p, attrs) ==
    IF p > Len(t) THEN Ok(p, attrs)
    ELSE Only({IF r.tag # "Ok" THEN r
               ELSE IF r.out.some
               THEN attributes_loop(a_api, base, t, r.pos,
                                    insert(attrs, r.out.kv.k, r.out.kv.v))
               ELSE attributes_loop(a_api, base, t, r.pos, attrs) :
               r \in {try_skip(base, key_value(a_api, base, t, ScanNonKey(t, p)))}})

attributes(a_api, base, t) == attributes_loop(a_api, base, t, 1, EmptyMap)

\* The body of the loop with a None arm that gives up the scan: the rest of
\* the input is dropped.
attributes_iteration_giving_up(a_api, base, t, p, attrs) ==
    Only({IF r.tag # "Ok" THEN r
          ELSE IF r.out.some
          THEN Ok(r.pos, insert(attrs, r.out.kv.k, r.out.kv.v))
          ELSE Ok(Len(t) + 1, attrs) :
          r \in {try_skip(base, key_value(a_api, base, t, ScanNonKey(t, p)))}})

\* The body of the loop with a None arm that leaves the input where it was.
attributes_iteration_in_place(a_api, base, t, p, attrs) ==
    Only({IF r.tag # "Ok" THEN r
          ELSE IF r.out.some
          THEN Ok(r.pos, insert(attrs, r.out.kv.k, r.out.kv.v))
          ELSE Ok(p, attrs) :
          r \in {try_skip(base, key_value(a_api, base, t, ScanNonKey(t, p)))}})

\* The body of the while loop on the input from p on: Ok with the rest and
\* the map after it, or the error the loop returns.
attributes_iteration(a_api, base, t, p, attrs) ==
    Only({IF r.tag # "Ok" THEN r
          ELSE IF r.out.some
          THEN Ok(r.pos, insert(attrs, r.out.kv.k, r.out.kv.v))
          ELSE Ok(r.pos, attrs) :
          r \in {try_skip(base, key_value(a_api, base, t, ScanNonKey(t, p)))}})

----------------------------------------------------------------------------
(* brace_enclosed, property_string, property, text, reference              *)

\* property_string that knows no escape: it ends at the first brace.
property_string_unescaped(s, p, name) ==
    Only({Ok(e, [from |-> p, to |-> e]) :
          e \in {ScanWhile(s, p, Alpha \cup Digit \cup MultiSpace
                                    \cup (Punctuation \ {"{", "}"}))}})

\* property_string for which an open brace is a character like any other.
property_string_open_brace(s, p, name) ==
    Only({IF r.tag = "Error"
          THEN context(p, name, Fail("Error", from_error_kind(r.at, "Escaped")))
          ELSE Ok(r.pos, [from |-> r.from, to |-> r.to]) :
          r \in {escaped0(s, p, {"\\", "}"}, "property")}})

\* context(name, property_string): escaped0 over none_of(\{}) and one_of(\{}),
\* with the Error type of the crate; the out field holds the bounds [from, to).
property_string(s, p, name) ==
    Only({IF r.tag = "Error"
          THEN context(p, name, Fail("Error", from_error_kind(r.at, "Escaped")))
          ELSE Ok(r.pos, [from |-> r.from, to |-> r.to]) :
          r \in {escaped0(s, p, ESCAPED_CHARS, "property")}})

\* preceded(char('{'), cut(terminated(parser, char('}')))) around
\* context(name, property_string).
brace_enclosed(s, p, name) ==
    IF ~(p <= Len(s) /\ s[p] = "{") THEN Fail("Error", from_char(p, "{"))
    ELSE Only({IF r.tag # "Ok" THEN cut(r)
               ELSE IF ~(r.pos <= Len(s) /\ s[r.pos] = "}")
               THEN Fail("Failure", from_char(r.pos, "}"))
               ELSE Ok(r.pos + 1, r.out) :
               r \in {property_string(s, p + 1, name)}})

\* brace_enclosed(context("property", property_string))
\*     .and_then(consumed(attributes)).map(Property { prop, attrs })
property(a_api, s, p) ==
    Only({IF b.tag # "Ok" THEN b
          ELSE Only({IF a.tag # "Ok" THEN a
                     ELSE Ok(b.pos,
                             [prop |-> MkSpan(a_api, b.out.from - 1,
                                              SubSeq(s, b.out.from, b.out.to - 1),
                                              1, a.pos),
                              attrs |-> a.out]) :
                     a \in {attributes(a_api, b.out.from - 1,
                                        SubSeq(s, b.out.from, b.out.to - 1))}}) :
          b \in {brace_enclosed(s, p, "property")}})

\* brace_enclosed(context("text", property_string))
text(a_api, s, p) ==
    Only({IF b.tag # "Ok" THEN b
          ELSE Ok(b.pos, MkSpan(a_api, 0, s, b.out.from, b.out.to)) :
          b \in {brace_enclosed(s, p, "text")}})

\* brace_enclosed(context("reference", property_string))
reference(a_api, s, p) ==
    Only({IF b.tag # "Ok" THEN b
          ELSE Ok(b.pos, MkSpan(a_api, 0, s, b.out.from, b.out.to)) :
          b \in {brace_enclosed(s, p, "reference")}})

----------------------------------------------------------------------------
(* Numbers                                                                 *)

DigitSeq == <<"0", "1", "2", "3", "4", "5", "6", "7", "8", "9">>

DigitVal(c) == (CHOOSE i \in 1..10 : DigitSeq[i] = c) - 1

\* d without its leading zeros.
StripLeading(d) ==
    LET nz == {i \in 1..Len(d) : d[i] # "0"}
    IN  IF nz = {} THEN <<>>
        ELSE SubSeq(d, CHOOSE i \in nz : \A j \in nz : i <= j, Len(d))

\* d without its trailing zeros.
StripTrailing(d) ==
    LET nz == {i \in 1..Len(d) : d[i] # "0"}
    IN  IF nz = {} THEN <<>>
        ELSE SubSeq(d, 1, CHOOSE i \in nz : \A j \in nz : i >= j)

\* Digit strings of equal length compared as numbers.
DigitsGT(a, b) ==
    \E i \in 1..Len(a) :
        /\ DigitVal(a[i]) > DigitVal(b[i])
        /\ \A j \in 1..(i - 1) : a[j] = b[j]

\* d extended with zeros at the right to length n (cut to n if longer).
PadRight(d, n) == [i \in 1..n |-> IF i <= Len(d) THEN d[i] ELSE "0"]

\* u64::MAX, 18446744073709551615.
U64Max ==
    <<"1", "8", "4", "4", "6", "7", "4", "4", "0", "7",
      "3", "7", "0", "9", "5", "5", "1", "6", "1", "5">>

\* checked_mul/checked_add of the digit loop overflow.
OverflowsU64(d) ==
    \E n \in {StripLeading(d)} :
        Len(n) > Len(U64Max) \/ (Len(n) = Len(U64Max) /\ DigitsGT(n, U64Max))

\* The value of a digit string as a TLC integer, saturated at cap.
RECURSIVE NatOf(_, _)
NatOf(d, cap) ==
    IF Len(d) = 0 THEN 0
    ELSE Only({IF hi >= cap \/ hi * 10 + DigitVal(d[Len(d)]) >= cap THEN cap
               ELSE hi * 10 + DigitVal(d[Len(d)]) :
               hi \in {NatOf(SubSeq(d, 1, Len(d) - 1), cap)}})

\* nom's u64: the digits at p; no digit, or a value over u64::MAX, is an
\* Error of kind Digit at p.  The value is kept as its canonical digits.
u64(s, p) ==
    Only({IF e = p \/ OverflowsU64(SubSeq(s, p, e - 1))
          THEN Fail("Error", from_error_kind(p, "Digit"))
          ELSE Only({Ok(e, IF d = <<>> THEN <<"0">> ELSE d) :
                     d \in {StripLeading(SubSeq(s, p, e - 1))}}) :
          e \in {ScanWhile(s, p, Digit)}})

layer(s, p) == u64(s, p)

CountCap == 1000000

\* nom's usize, on a 64-bit target; the count as an integer (saturated above
\* any input length).
usize(s, p) ==
    Only({IF e = p \/ OverflowsU64(SubSeq(s, p, e - 1))
          THEN Fail("Error", from_error_kind(p, "Digit"))
          ELSE Ok(e, NatOf(StripLeading(SubSeq(s, p, e - 1)), CountCap)) :
          e \in {ScanWhile(s, p, Digit)}})

\* nom's recognize_float: [sign] (digits [. [digits]] | . digits)
\* [(e|E) [sign] cut(digits)].  out holds the pieces of the literal.
recognize_float(s, p) ==
    Only({Only({Only({Only({
        LET neg == p <= Len(s) /\ s[p] = "-"
            hasInt == e1 > q1
            dot1 == e1 <= Len(s) /\ s[e1] = "."
            dot0 == q1 <= Len(s) /\ s[q1] = "."
            hasExp == m <= Len(s) /\ s[m] \in {"e", "E"}
            xneg == m + 1 <= Len(s) /\ s[m + 1] = "-"
        IN  IF ~hasInt /\ ~dot0 THEN Fail("Error", from_char(q1, "."))
            ELSE IF ~hasInt /\ f3 = q1 + 1
            THEN Fail("Error", from_error_kind(q1 + 1, "Digit"))
            ELSE IF hasExp /\ x2 = x1 THEN Fail("Failure", from_error_kind(x1, "Digit"))
            ELSE Ok(IF hasExp THEN x2 ELSE m,
                    [neg |-> neg,
                     int |-> IF hasInt THEN SubSeq(s, q1, e1 - 1) ELSE <<>>,
                     frac |-> IF hasInt
                              THEN (IF dot1 THEN SubSeq(s, e1 + 1, m - 1) ELSE <<>>)
                              ELSE SubSeq(s, q1 + 1, f3 - 1),
                     xneg |-> hasExp /\ xneg,
                     xdigits |-> IF hasExp THEN SubSeq(s, x1, x2 - 1) ELSE <<>>]) :
        x2 \in {ScanWhile(s, x1, Digit)}}) :
        x1 \in {IF m + 1 <= Len(s) /\ s[m + 1] \in {"+", "-"} THEN m + 2 ELSE m + 1}}) :
        m \in {IF e1 > q1
                THEN (IF e1 <= Len(s) /\ s[e1] = "." THEN ScanWhile(s, e1 + 1, Digit)
                      ELSE e1)
                ELSE f3}}) :
        q1 \in {IF p <= Len(s) /\ s[p] \in {"+", "-"} THEN p + 1 ELSE p},
        e1 \in {ScanWhile(s, IF p <= Len(s) /\ s[p] \in {"+", "-"} THEN p + 1 ELSE p,
                           Digit)},
        f3 \in {ScanWhile(s, (IF p <= Len(s) /\ s[p] \in {"+", "-"} THEN p + 1 ELSE p) + 1,
                           Digit)}})

ExpCap == 100000

\* The first digits of 2^1024 - 2^970, the least decimal that rounds to
\* infinity: 1.7976931348623158079...e308.
F64InfDigits ==
    <<"1", "7", "9", "7", "6", "9", "3", "1", "3", "4", "8",
      "6", "2", "3", "1", "5", "8", "0", "7", "9">>

\* str::parse::<f64> of a recognised literal: the decimal value 0.digs * 10^exp
\* in canonical form, and whether it rounds to an infinity.  Exact for literals
\* of at most 20 significant digits in the normal range; values below the
\* least subnormal round to zero, rounding among subnormals is not modelled.
parse_to(lit) ==
    Only({Only({
        LET e10 == Len(lit.int) - (Len(lit.int) + Len(lit.frac) - Len(sl))
                   + (IF lit.xneg THEN 0 - x ELSE x)
            inf == /\ digs # <<>>
                   /\ \/ e10 > 309
                      \/ /\ e10 = 309
                         /\ DigitsGT(PadRight(digs, Len(F64InfDigits)), F64InfDigits)
            zero == digs = <<>> \/ e10 < -323
        IN  IF inf THEN [finite |-> FALSE, neg |-> lit.neg, digs |-> <<>>, exp |-> 0]
            ELSE IF zero THEN [finite |-> TRUE, neg |-> lit.neg, digs |-> <<>>, exp |-> 0]
            ELSE [finite |-> TRUE, neg |-> lit.neg, digs |-> digs, exp |-> e10] :
        digs \in {StripTrailing(sl)}}) :
        sl \in {StripLeading(lit.int \o lit.frac)},
        x \in {NatOf(StripLeading(lit.xdigits), ExpCap)}})

\* FiniteDouble::try_from without the is_finite test.
FiniteDouble_try_from_unchecked(f) == <<f>>

\* FiniteDouble::try_from(f64): Ok exactly for a finite value.
FiniteDouble_try_from(f) == IF f.finite THEN <<f>> ELSE <<>>

\* finite_double: recognize_float, parse_to, then try_into().unwrap(), which
\* panics on a value that is not finite.  The None arm (kind Float) needs a
\* recognised literal that str::parse rejects.
finite_double(s, p) ==
    Only({IF r.tag # "Ok" THEN r
          ELSE Only({IF f = <<>>
                     THEN [tag |-> "Panic", pos |-> 0, out |-> Nil, err |-> NoErr]
                     ELSE Ok(r.pos, f[1]) :
                     f \in {FiniteDouble_try_from(parse_to(r.out))}}) :
          r \in {recognize_float(s, p)}})

multispace0(s, p) == ScanWhile(s, p, MultiSpace)

\* multispace1: at least one of space, tab, CR, LF.
multispace1(s, p) ==
    Only({IF e = p THEN Fail("Error", from_error_kind(p, "MultiSpace")) ELSE Ok(e, Nil) :
          e \in {ScanWhile(s, p, MultiSpace)}})

\* space1 taken for multispace1: line breaks count as well.
space1_any(s, p) == multispace1(s, p)

\* space1: at least one of space, tab.
space1(s, p) ==
    Only({IF e = p THEN Fail("Error", from_error_kind(p, "Space")) ELSE Ok(e, Nil) :
          e \in {ScanWhile(s, p, Space)}})

\* separated_pair(finite_double, multispace1, finite_double) into Vec2.
vec2(s, p) ==
    Only({IF x.tag # "Ok" THEN x
          ELSE Only({IF w.tag # "Ok" THEN w
                     ELSE Only({IF y.tag # "Ok" THEN y
                                ELSE Ok(y.pos, [x |-> x.out, y |-> y.out]) :
                                y \in {finite_double(s, w.pos)}}) :
                     w \in {multispace1(s, x.pos)}}) :
          x \in {finite_double(s, p)}})

coordinate(s, p) == context(p, "coordinate", vec2(s, p))

size(s, p) == context(p, "size", vec2(s, p))

\* alt of char('0'), char('1'), char('2'), char('3'): the error is the last
\* alternative's.
rotation(s, p) ==
    IF p <= Len(s) /\ s[p] \in {"0", "1", "2", "3"}
    THEN Ok(p + 1, CASE s[p] = "0" -> "Zero" [] s[p] = "1" -> "One"
                     [] s[p] = "2" -> "Two" [] s[p] = "3" -> "Three")
    ELSE context(p, "rotation", Fail("Error", append(p, "Alt", from_char(p, "3"))))

flip(s, p) ==
    IF p <= Len(s) /\ s[p] \in {"0", "1"}
    THEN Ok(p + 1, IF s[p] = "0" THEN "Unflipped" ELSE "Flipped")
    ELSE context(p, "flip", Fail("Error", append(p, "Alt", from_char(p, "1"))))

----------------------------------------------------------------------------
(* Objects                                                                 *)

None == <<>>

Some(v) == <<v>>

\* Schematic::new: the version, every slot absent, every sequence empty.
Schematic_new(version) ==
    [version |-> version,
     vhdl_property |-> None, symbol_property |-> None, verilog_property |-> None,
     spice_property |-> None, tedax_property |-> None,
     texts |-> <<>>, lines |-> <<>>, rectangles |-> <<>>, polygons |-> <<>>,
     arcs |-> <<>>, wires |-> <<>>, components |-> <<>>]

\* add_object with Option::get_or_insert in place of Option::replace: a slot
\* that is filled keeps its first property.
add_object_keep_first(self, object) ==
    CASE object.kind = "VhdlProperty" /\ self.vhdl_property = None ->
            [self EXCEPT !.vhdl_property = Some(object.val)]
      [] object.kind = "SymbolProperty" /\ self.symbol_property = None ->
            [self EXCEPT !.symbol_property = Some(object.val)]
      [] object.kind = "VerilogProperty" /\ self.verilog_property = None ->
            [self EXCEPT !.verilog_property = Some(object.val)]
      [] object.kind = "SpiceProperty" /\ self.spice_property = None ->
            [self EXCEPT !.spice_property = Some(object.val)]
      [] object.kind = "TedaXProperty" /\ self.tedax_property = None ->
            [self EXCEPT !.tedax_property = Some(object.val)]
      [] object.kind = "Arc" -> [self EXCEPT !.arcs = Append(@, object.val)]
      [] object.kind = "Component" -> [self EXCEPT !.components = Append(@, object.val)]
      [] object.kind = "Line" -> [self EXCEPT !.lines = Append(@, object.val)]
      [] object.kind = "Polygon" -> [self EXCEPT !.polygons = Append(@, object.val)]
      [] object.kind = "Rectangle" -> [self EXCEPT !.rectangles = Append(@, object.val)]
      [] object.kind = "Text" -> [self EXCEPT !.texts = Append(@, object.val)]
      [] object.kind = "Wire" -> [self EXCEPT !.wires = Append(@, object.val)]
      [] OTHER -> self

\* add_object with Vec::insert(0, ..) in place of Vec::push.
add_object_push_front(self, object) ==
    CASE object.kind = "VhdlProperty" -> [self EXCEPT !.vhdl_property = Some(object.val)]
      [] object.kind = "SymbolProperty" -> [self EXCEPT !.symbol_property = Some(object.val)]
      [] object.kind = "VerilogProperty" -> [self EXCEPT !.verilog_property = Some(object.val)]
      [] object.kind = "SpiceProperty" -> [self EXCEPT !.spice_property = Some(object.val)]
      [] object.kind = "TedaXProperty" -> [self EXCEPT !.tedax_property = Some(object.val)]
      [] object.kind = "Arc" -> [self EXCEPT !.arcs = <<object.val>> \o @]
      [] object.kind = "Component" -> [self EXCEPT !.components = <<object.val>> \o @]
      [] object.kind = "Line" -> [self EXCEPT !.lines = <<object.val>> \o @]
      [] object.kind = "Polygon" -> [self EXCEPT !.polygons = <<object.val>> \o @]
      [] object.kind = "Rectangle" -> [self EXCEPT !.rectangles = <<object.val>> \o @]
      [] object.kind = "Text" -> [self EXCEPT !.texts = <<object.val>> \o @]
      [] object.kind = "Wire" -> [self EXCEPT !.wires = <<object.val>> \o @]

\* add_object that starts each vector afresh when the object before was of
\* another kind: a push empties the other sequences.
add_object_emptying(self, object) ==
    CASE object.kind = "VhdlProperty" -> [self EXCEPT !.vhdl_property = Some(object.val)]
      [] object.kind = "SymbolProperty" -> [self EXCEPT !.symbol_property = Some(object.val)]
      [] object.kind = "VerilogProperty" -> [self EXCEPT !.verilog_property = Some(object.val)]
      [] object.kind = "SpiceProperty" -> [self EXCEPT !.spice_property = Some(object.val)]
      [] object.kind = "TedaXProperty" -> [self EXCEPT !.tedax_property = Some(object.val)]
      [] object.kind = "Arc" ->
            [Schematic_new(self.version) EXCEPT !.arcs = Append(self.arcs, object.val)]
      [] object.kind = "Component" ->
            [Schematic_new(self.version) EXCEPT
                !.components = Append(self.components, object.val)]
      [] object.kind = "Line" ->
            [Schematic_new(self.version) EXCEPT !.lines = Append(self.lines, object.val)]
      [] object.kind = "Polygon" ->
            [Schematic_new(self.version) EXCEPT
                !.polygons = Append(self.polygons, object.val)]
      [] object.kind = "Rectangle" ->
            [Schematic_new(self.version) EXCEPT
                !.rectangles = Append(self.rectangles, object.val)]
      [] object.kind = "Text" ->
            [Schematic_new(self.version) EXCEPT !.texts = Append(self.texts, object.val)]
      [] object.kind = "Wire" ->
            [Schematic_new(self.version) EXCEPT !.wires = Append(self.wires, object.val)]

\* Schematic::add_object: Option::replace for the five properties, Vec::push
\* for the seven kinds of object.
add_object(self, object) ==
    CASE object.kind = "VhdlProperty" -> [self EXCEPT !.vhdl_property = Some(object.val)]
      [] object.kind = "SymbolProperty" -> [self EXCEPT !.symbol_property = Some(object.val)]
      [] object.kind = "VerilogProperty" -> [self EXCEPT !.verilog_property = Some(object.val)]
      [] object.kind = "SpiceProperty" -> [self EXCEPT !.spice_property = Some(object.val)]
      [] object.kind = "TedaXProperty" -> [self EXCEPT !.tedax_property = Some(object.val)]
      [] object.kind = "Arc" -> [self EXCEPT !.arcs = Append(@, object.val)]
      [] object.kind = "Component" -> [self EXCEPT !.components = Append(@, object.val)]
      [] object.kind = "Line" -> [self EXCEPT !.lines = Append(@, object.val)]
      [] object.kind = "Polygon" -> [self EXCEPT !.polygons = Append(@, object.val)]
      [] object.kind = "Rectangle" -> [self EXCEPT !.rectangles = Append(@, object.val)]
      [] object.kind = "Text" -> [self EXCEPT !.texts = Append(@, object.val)]
      [] object.kind = "Wire" -> [self EXCEPT !.wires = Append(@, object.val)]

\* object(name, tag, parser) = context(name, preceded(char(tag), cut(parser))),
\* r being the result of parser after the tag letter (evaluated only when the
\* tag letter matches).
object(s, p, name, tagc, r) ==
    IF ~(p <= Len(s) /\ s[p] = tagc)
    THEN context(p, name, Fail("Error", from_char(p, tagc)))
    ELSE context(p, name, cut(r))

RECURSIVE count_loop_push_front(_, _, _, _)
\* The loop of length_count with each point put in front of the earlier ones.
count_loop_push_front(s, p, n, acc) ==
    IF n = 0 THEN Ok(p, acc)
    ELSE Only({IF w.tag # "Ok" THEN Fail("Error", append(p, "Count", w.err))
               ELSE Only({IF c.tag = "Error"
                          THEN Fail("Error", append(p, "Count", c.err))
                          ELSE IF c.tag # "Ok" THEN c
                          ELSE count_loop_push_front(s, c.pos, n - 1, <<c.out>> \o acc) :
                          c \in {coordinate(s, w.pos)}}) :
               w \in {space1(s, p)}})

RECURSIVE count_loop(_, _, _, _)
\* The for loop of length_count over preceded(space1, coordinate).
count_loop(s, p, n, acc) ==
    IF n = 0 THEN Ok(p, acc)
    ELSE Only({IF w.tag # "Ok" THEN Fail("Error", append(p, "Count", w.err))
               ELSE Only({IF c.tag = "Error"
                          THEN Fail("Error", append(p, "Count", c.err))
                          ELSE IF c.tag # "Ok" THEN c
                          ELSE count_loop(s, c.pos, n - 1, Append(acc, c.out)) :
                          c \in {coordinate(s, w.pos)}}) :
               w \in {space1(s, p)}})

\* length_count(usize, preceded(space1, coordinate)).
length_count(s, p) ==
    Only({IF c.tag # "Ok" THEN c ELSE count_loop(s, c.pos, c.out, <<>>) :
          c \in {usize(s, p)}})

\* One inner field of an object.
field(a_api, s, p, ty) ==
    CASE ty = "layer" -> layer(s, p)
      [] ty = "coordinate" -> coordinate(s, p)
      [] ty = "size" -> size(s, p)
      [] ty = "finite_double" -> finite_double(s, p)
      [] ty = "rotation" -> rotation(s, p)
      [] ty = "flip" -> flip(s, p)
      [] ty = "property" -> property(a_api, s, p)
      [] ty = "text" -> text(a_api, s, p)
      [] ty = "reference" -> reference(a_api, s, p)
      [] ty = "points" -> length_count(s, p)

RECURSIVE fields(_, _, _, _, _)
\* A tuple of preceded(multispace1, field) parsers, left to right.
fields(a_api, s, p, tys, acc) ==
    IF tys = <<>> THEN Ok(p, acc)
    ELSE Only({IF w.tag # "Ok" THEN w
               ELSE Only({IF r.tag # "Ok" THEN r
                          ELSE fields(a_api, s, r.pos, Tail(tys), Append(acc, r.out)) :
                          r \in {field(a_api, s, w.pos, Head(tys))}}) :
               w \in {multispace1(s, p)}})

\* r with its output mapped by the Object variant kind.
into(kind, r) == IF r.tag = "Ok" THEN Ok(r.pos, [kind |-> kind, val |-> r.out]) ELSE r

\* version_object with the frame name of property_object.
version_object_misnamed(a_api, s, p) ==
    Only({IF o.tag = "Ok" THEN Ok(o.pos, o.out[1]) ELSE o :
          o \in {object(s, p, "global property", "v",
                         fields(a_api, s, p + 1, <<"property">>, <<>>))}})

version_object(a_api, s, p) ==
    Only({IF o.tag = "Ok" THEN Ok(o.pos, o.out[1]) ELSE o :
          o \in {object(s, p, "version", "v",
                         fields(a_api, s, p + 1, <<"property">>, <<>>))}})

property_object(a_api, s, p, tagc) ==
    Only({IF o.tag = "Ok" THEN Ok(o.pos, o.out[1]) ELSE o :
          o \in {object(s, p, "global property", tagc,
                         fields(a_api, s, p + 1, <<"property">>, <<>>))}})

arc_object(a_api, s, p) ==
    Only({IF o.tag # "Ok" THEN o
          ELSE Ok(o.pos, [layer |-> o.out[1], center |-> o.out[2], radius |-> o.out[3],
                          start_angle |-> o.out[4], sweep_angle |-> o.out[5],
                          property |-> o.out[6]]) :
          o \in {object(s, p, "arc", "A",
                         fields(a_api, s, p + 1,
                                <<"layer", "coordinate", "finite_double", "finite_double",
                                  "finite_double", "property">>, <<>>))}})

line_object(a_api, s, p) ==
    Only({IF o.tag # "Ok" THEN o
          ELSE Ok(o.pos, [layer |-> o.out[1], start |-> o.out[2], end |-> o.out[3],
                          property |-> o.out[4]]) :
          o \in {object(s, p, "line", "L",
                         fields(a_api, s, p + 1,
                                <<"layer", "coordinate", "coordinate", "property">>,
                                <<>>))}})

polygon_object(a_api, s, p) ==
    Only({IF o.tag # "Ok" THEN o
          ELSE Ok(o.pos, [layer |-> o.out[1], points |-> o.out[2],
                          property |-> o.out[3]]) :
          o \in {object(s, p, "polygon", "P",
                         fields(a_api, s, p + 1, <<"layer", "points", "property">>,
                                <<>>))}})

rectangle_object(a_api, s, p) ==
    Only({IF o.tag # "Ok" THEN o
          ELSE Ok(o.pos, [layer |-> o.out[1], start |-> o.out[2], end |-> o.out[3],
                          property |-> o.out[4]]) :
          o \in {object(s, p, "rectangle", "B",
                         fields(a_api, s, p + 1,
                                <<"layer", "coordinate", "coordinate", "property">>,
                                <<>>))}})

text_object(a_api, s, p) ==
    Only({IF o.tag # "Ok" THEN o
          ELSE Ok(o.pos, [text |-> o.out[1], position |-> o.out[2],
                          rotation |-> o.out[3], flip |-> o.out[4], size |-> o.out[5],
                          property |-> o.out[6]]) :
          o \in {object(s, p, "text", "T",
                         fields(a_api, s, p + 1,
                                <<"text", "coordinate", "rotation", "flip", "size",
                                  "property">>, <<>>))}})

wire_object(a_api, s, p) ==
    Only({IF o.tag # "Ok" THEN o
          ELSE Ok(o.pos, [start |-> o.out[1], end |-> o.out[2], property |-> o.out[3]]) :
          o \in {object(s, p, "wire", "N",
                         fields(a_api, s, p + 1,
                                <<"coordinate", "coordinate", "property">>, <<>>))}})

RECURSIVE schematic(_, _, _)

\* object("embedded symbol", '[', terminated(preceded(multispace1, schematic),
\*                                           preceded(multispace1, char(']')))).
embedding(a_api, s, p) ==
    object(s, p, "embedded symbol", "[",
           Only({IF w.tag # "Ok" THEN w
                 ELSE Only({IF i.tag # "Ok" THEN i
                            ELSE Only({IF w2.tag # "Ok" THEN w2
                                       ELSE IF ~(w2.pos <= Len(s) /\ s[w2.pos] = "]")
                                       THEN Fail("Error", from_char(w2.pos, "]"))
                                       ELSE Ok(w2.pos + 1, i.out) :
                                       w2 \in {multispace1(s, i.pos)}}) :
                            i \in {schematic(a_api, s, w.pos)}}) :
                 w \in {multispace1(s, p + 1)}}))

\* The component's fields, then opt(preceded(multispace1, embedding)).
component_instance(a_api, s, p) ==
    Only({IF o.tag # "Ok" THEN o
          ELSE Ok(o.pos, [reference |-> o.out[1], position |-> o.out[2],
                          rotation |-> o.out[3], flip |-> o.out[4],
                          property |-> o.out[5], embedding |-> o.out[6]]) :
          o \in {object(s, p, "component", "C",
                 Only({IF f.tag # "Ok" THEN f
                       ELSE Only({IF w.tag # "Ok" THEN Ok(f.pos, Append(f.out, None))
                                  ELSE Only({IF e.tag = "Error"
                                             THEN Ok(f.pos, Append(f.out, None))
                                             ELSE IF e.tag # "Ok" THEN e
                                             ELSE Ok(e.pos, Append(f.out, Some(e.out))) :
                                             e \in {embedding(a_api, s, w.pos)}}) :
                                  w \in {multispace1(s, f.pos)}}) :
                       f \in {fields(a_api, s, p + 1,
                                      <<"reference", "coordinate", "rotation", "flip",
                                        "property">>, <<>>)}}))}})

\* The i-th alternative of any_object.
alternative(a_api, s, p, i) ==
    CASE i = 1 -> into("VhdlProperty", property_object(a_api, s, p, "G"))
      [] i = 2 -> into("SymbolProperty", property_object(a_api, s, p, "K"))
      [] i = 3 -> into("VerilogProperty", property_object(a_api, s, p, "V"))
      [] i = 4 -> into("SpiceProperty", property_object(a_api, s, p, "S"))
      [] i = 5 -> into("TedaXProperty", property_object(a_api, s, p, "E"))
      [] i = 6 -> into("Arc", arc_object(a_api, s, p))
      [] i = 7 -> into("Component", component_instance(a_api, s, p))
      [] i = 8 -> into("Line", line_object(a_api, s, p))
      [] i = 9 -> into("Polygon", polygon_object(a_api, s, p))
      [] i = 10 -> into("Rectangle", rectangle_object(a_api, s, p))
      [] i = 11 -> into("Text", text_object(a_api, s, p))
      [] i = 12 -> into("Wire", wire_object(a_api, s, p))

NumAlternatives == 12

RECURSIVE alt_from(_, _, _, _)
\* alt: the first alternative that does not return an Error decides; when all
\* return an Error the last one's error is kept (Error::append).
alt_from(a_api, s, p, i) ==
    Only({IF r.tag # "Error" THEN r
          ELSE IF i < NumAlternatives THEN alt_from(a_api, s, p, i + 1)
          ELSE Fail("Error", append(p, "Alt", r.err)) :
          r \in {alternative(a_api, s, p, i)}})

any_object(a_api, s, p) == alt_from(a_api, s, p, 1)

\* One iteration of fold_many0(preceded(multispace1, any_object), ..,
\* Schematic::add_object): "Continue" with the grown accumulator, "Done" when
\* the element parser returns an Error (the input stays where the iteration
\* began), or the Failure itself.
fold_step(a_api, s, p, acc) ==
    Only({IF o.tag = "Ok"
          THEN IF o.pos = p
               THEN [tag |-> "Failure", pos |-> 0, out |-> Nil, obj |-> Nil,
                     err |-> from_error_kind(p, "Many0")]
               ELSE [tag |-> "Continue", pos |-> o.pos, out |-> add_object(acc, o.out),
                     obj |-> o.out, err |-> NoErr]
          ELSE IF o.tag = "Error"
          THEN [tag |-> "Done", pos |-> p, out |-> acc, obj |-> Nil, err |-> NoErr]
          ELSE [tag |-> o.tag, pos |-> 0, out |-> Nil, obj |-> Nil, err |-> o.err] :
          o \in {Only({IF w.tag # "Ok" THEN w ELSE any_object(a_api, s, w.pos) :
                        w \in {multispace1(s, p)}})}})

RECURSIVE fold_many0(_, _, _, _)
fold_many0(a_api, s, p, acc) ==
    Only({IF r.tag = "Continue" THEN fold_many0(a_api, s, r.pos, r.out)
          ELSE IF r.tag = "Done" THEN Ok(r.pos, r.out)
          ELSE [tag |-> r.tag, pos |-> 0, out |-> Nil, err |-> r.err] :
          r \in {fold_step(a_api, s, p, acc)}})

\* preceded(multispace0, version_object.flat_map(fold_many0(..))).
schematic(a_api, s, p) ==
    Only({IF v.tag # "Ok" THEN v
          ELSE fold_many0(a_api, s, v.pos, Schematic_new(v.out)) :
          v \in {version_object(a_api, s, multispace0(s, p))}})

\* eof without the multispace0 in front of it.
eof_unskipped(s, p) ==
    IF p > Len(s) THEN Ok(p, Nil) ELSE Fail("Error", from_error_kind(p, "Eof"))

\* preceded(multispace0, eof).
eof(s, p) ==
    Only({IF q > Len(s) THEN Ok(q, Nil) ELSE Fail("Error", from_error_kind(q, "Eof")) :
          q \in {multispace0(s, p)}})

\* Finish::finish: an Error and a Failure both become Err(e).
finish(r) ==
    IF r.tag = "Ok" THEN [tag |-> "Ok", out |-> Some(r.out), err |-> NoErr, hard |-> FALSE]
    ELSE IF r.tag = "Panic" THEN [tag |-> "Panic", out |-> None, err |-> NoErr, hard |-> FALSE]
    ELSE [tag |-> "Err", out |-> None, err |-> r.err, hard |-> r.tag = "Failure"]

\* terminated(schematic, preceded(multispace0, eof)).parse(input).finish().
schematic_full(a_api, s) ==
    Only({IF r.tag # "Ok" THEN finish(r)
          ELSE Only({IF e.tag # "Ok" THEN finish(e) ELSE finish(Ok(e.pos, r.out)) :
                     e \in {eof(s, r.pos)}}) :
          r \in {schematic(a_api, s, 1)}})

\* LocatedSpan::location_line and get_utf8_column of a position.
location_line(s, at) == 1 + Cardinality({i \in 1..(at - 1) : s[i] = "\n"})

get_utf8_column(s, at) ==
    LET nl == {i \in 1..(at - 1) : s[i] = "\n"}
    IN  IF nl = {} THEN at ELSE at - (CHOOSE i \in nl : \A j \in nl : i >= j)

----------------------------------------------------------------------------
(* Inputs                                                                  *)

RECURSIVE Flatten(_)
\* The concatenation of a sequence of character sequences.
Flatten(ss) == IF ss = <<>> THEN <<>> ELSE Head(ss) \o Flatten(Tail(ss))

\* The sequences over S of length at most n.
SeqsUpTo(S, n) == UNION {[1..k -> S] : k \in 0..n}

\* Each character sequence of ss preceded by the separator sep.
Separated(sep, ss) == Flatten([i \in 1..Len(ss) |-> sep \o ss[i]])

\* Well-formed objects, one or two of each kind any_object knows.
GoodObjects ==
    {<<"G", " ", "{", "}">>,
     <<"K", " ", "{", "a", "=", "1", "}">>,
     <<"V", " ", "{", "}">>,
     <<"S", " ", "{", "}">>,
     <<"E", " ", "{", "}">>,
     <<"A", " ", "1", " ", "0", " ", "0", " ", "1", " ", "0", " ", "9", " ", "{", "}">>,
     <<"C", " ", "{", "r", "}", " ", "0", " ", "0", " ", "0", " ", "0", " ", "{", "}">>,
     <<"C", " ", "{", "r", "}", " ", "0", " ", "0", " ", "1", " ", "1", " ", "{", "}", "\n", "[", "\n", "v", " ", "{", "}", "\n", "]">>,
     <<"L", " ", "1", " ", "0", " ", "0", " ", "1", " ", "1", " ", "{", "}">>,
     <<"P", " ", "1", " ", "1", " ", "0", " ", "0", " ", "{", "}">>,
     <<"B", " ", "1", " ", "0", " ", "0", " ", "1", " ", "1", " ", "{", "}">>,
     <<"T", " ", "{", "t", "}", " ", "0", " ", "0", " ", "0", " ", "0", " ", "1", " ", "1", " ", "{", "}">>,
     <<"N", " ", "0", " ", "0", " ", "1", " ", "1", " ", "{", "}">>}

\* Objects whose tag letter matches and whose fields then fail.
BadObjects ==
    {<<"G", " ", "x">>,
     <<"K">>,
     <<"V", "{", "}">>,
     <<"S", " ", "{">>,
     <<"E", " ", "{", "\\", "}">>,
     <<"A", " ", "1", " ", "x">>,
     <<"C", " ", "{", "r", "}", " ", "0", " ", "0", " ", "4", " ", "0", " ", "{", "}">>,
     <<"C", " ", "{", "r", "}", " ", "0", " ", "0", " ", "0", " ", "0", " ", "{", "}", "\n", "[", "\n", "x", "\n", "]">>,
     <<"L", " ", "1", " ", "0", " ", "0", " ", "{", "}">>,
     <<"P", " ", "2", " ", "0", " ", "0", " ", "{", "}">>,
     <<"B", " ", "1">>,
     <<"T", " ", "{", "t", "}", " ", "0", " ", "0", " ", "0", " ", "2", " ", "1", " ", "1", " ", "{", "}">>,
     <<"N", " ", "0", " ", "{", "}">>}

\* An object no alternative of any_object knows, and a line whose last
\* coordinate is a literal beyond the range of f64.
OtherObjects ==
    {<<"X", " ", "{", "}">>,
     <<"L", " ", "1", " ", "0", " ", "0", " ", "1", " ", "9", "e", "9", "9", "9", " ", "{", "}">>}

Objects == GoodObjects \cup BadObjects \cup OtherObjects

MaxObjects == 3

GoodVersion == <<"v", " ", "{", "}">>

\* Buffers whose version object does not parse.
BadVersions == {<<>>, <<"v", " ", "[", "]">>, <<"v">>, <<"G", " ", "{", "}">>}

\* The buffers of the step-wise specification: a version object followed by
\* up to MaxObjects objects, each on a line of its own.
Buffers ==
    {GoodVersion \o Separated(<<"\n">>, os) : os \in SeqsUpTo(Objects, MaxObjects)}
        \cup BadVersions

----------------------------------------------------------------------------
(* from_str, step by step: the version object, one iteration of the fold   *)
(* at a time, the end-of-input check.                                      *)

Init ==
    /\ input \in Buffers
    /\ api = "span"
    /\ pc = "version"
    /\ pos = 1
    /\ sch = Nil
    /\ stream = <<>>
    /\ last = Nil
    /\ result = Nil

\* preceded(multispace0, version_object) and Schematic::new.
VersionStep ==
    /\ pc = "version"
    /\ \E q \in {multispace0(input, 1)} : \E v \in {version_object(api, input, q)} :
           /\ last' = [stage |-> "version", at |-> q, tag |-> v.tag]
           /\ IF v.tag = "Ok"
              THEN /\ sch' = Schematic_new(v.out)
                   /\ pos' = v.pos
                   /\ pc' = "fold"
                   /\ UNCHANGED result
              ELSE /\ result' = finish(v)
                   /\ pc' = "done"
                   /\ UNCHANGED <<sch, pos>>
    /\ UNCHANGED <<input, api, stream>>

\* One iteration of fold_many0: the whitespace, any_object, add_object.
FoldStep ==
    /\ pc = "fold"
    /\ \E w \in {multispace1(input, pos)} : \E r \in {fold_step(api, input, pos, sch)} :
           /\ last' = [stage |-> "object",
                       at |-> IF w.tag = "Ok" THEN w.pos ELSE 0,
                       tag |-> r.tag]
           /\ IF r.tag = "Continue"
              THEN /\ sch' = r.out
                   /\ stream' = Append(stream, [letter |-> input[w.pos], at |-> w.pos,
                                                 kind |-> r.obj.kind, val |-> r.obj.val])
                   /\ pos' = r.pos
                   /\ UNCHANGED <<pc, result>>
              ELSE IF r.tag = "Done"
              THEN /\ pc' = "eof"
                   /\ UNCHANGED <<sch, stream, pos, result>>
              ELSE /\ result' = finish([tag |-> r.tag, pos |-> 0, out |-> Nil, err |-> r.err])
                   /\ pc' = "done"
                   /\ UNCHANGED <<sch, stream, pos>>
    /\ UNCHANGED <<input, api>>

\* preceded(multispace0, eof) and finish.
EofStep ==
    /\ pc = "eof"
    /\ \E e \in {eof(input, pos)} :
           result' = IF e.tag = "Ok" THEN finish(Ok(e.pos, sch)) ELSE finish(e)
    /\ pc' = "done"
    /\ UNCHANGED <<input, api, pos, sch, stream, last>>

Next == VersionStep \/ FoldStep \/ EofStep

Spec == Init /\ [][Next]_vars

----------------------------------------------------------------------------
(* The assembled schematic against the object stream                       *)

RECURSIVE OfLetter(_, _)
\* The values of the objects of a stream whose tag letter is c, in order.
OfLetter(st, c) ==
    IF st = <<>> THEN <<>>
    ELSE (IF Head(st).letter = c THEN <<Head(st).val>> ELSE <<>>) \o OfLetter(Tail(st), c)

\* The schematics to compare with the stream: the one in flight and, once
\* from_str has returned Ok, the one it returned.
Folded ==
    (IF sch # Nil THEN {sch} ELSE {})
        \cup (IF pc = "done" /\ result.tag = "Ok" THEN {result.out[1]} ELSE {})

SlotLetters == {"G", "K", "V", "S", "E"}

SlotOf(S, c) ==
    CASE c = "G" -> S.vhdl_property
      [] c = "K" -> S.symbol_property
      [] c = "V" -> S.verilog_property
      [] c = "S" -> S.spice_property
      [] c = "E" -> S.tedax_property

\* C1: each of the five singleton slots (vhdl G, symbol K, verilog V, spice S,
\* tedax E) is absent exactly when no object with that tag letter occurred in
\* the stream folded so far, and otherwise holds the property of the last
\* object with that tag letter.
C1_SlotsHoldLastOccurrence ==
    \A S \in Folded : \A c \in SlotLetters :
        \E vals \in {OfLetter(stream, c)} :
            /\ (SlotOf(S, c) = None) <=> (vals = <<>>)
            /\ vals # <<>> => SlotOf(S, c) = Some(vals[Len(vals)])

\* A parse that returned a schematic whose stream held two S objects with
\* different properties and no G object.
C1_Witness ==
    /\ pc = "done" /\ result.tag = "Ok"
    /\ \E i, j \in 1..Len(stream) :
          /\ i < j
          /\ stream[i].letter = "S" /\ stream[j].letter = "S"
          /\ stream[i].val # stream[j].val
          /\ result.out[1].spice_property = Some(stream[j].val)
    /\ result.out[1].vhdl_property = None

SequenceLetters == {"T", "L", "B", "P", "A", "N", "C"}

SequenceOf(S, c) ==
    CASE c = "T" -> S.texts
      [] c = "L" -> S.lines
      [] c = "B" -> S.rectangles
      [] c = "P" -> S.polygons
      [] c = "A" -> S.arcs
      [] c = "N" -> S.wires
      [] c = "C" -> S.components

\* C2: for each of the seven object kinds the sequence of that kind in the
\* schematic equals the subsequence of the stream's objects of that kind, in
\* source order.
C2_SequencesFollowStream ==
    \A S \in Folded : \A c \in SequenceLetters : SequenceOf(S, c) = OfLetter(stream, c)

\* A returned schematic with two different lines that had another object
\* between them in the source.
C2_Witness ==
    /\ pc = "done" /\ result.tag = "Ok"
    /\ Len(stream) = 3
    /\ stream[1].letter = "L" /\ stream[2].letter = "N" /\ stream[3].letter = "L"
    /\ stream[1].val # stream[3].val
    /\ result.out[1].lines = <<stream[1].val, stream[3].val>>
    /\ result.out[1].wires = <<stream[2].val>>

----------------------------------------------------------------------------
(* Commitment after the tag letter                                         *)

\* The tag letters of the alternatives of any_object, in their order.
TagLetters == <<"G", "K", "V", "S", "E", "A", "C", "L", "P", "B", "T", "N">>

Matches(q, c) == q <= Len(input) /\ input[q] = c

\* from_str returned the error e as a hard failure, without a schematic, and
\* every object of the stream starts before position q.
ReturnedHard(e, q) ==
    /\ pc = "done"
    /\ result = [tag |-> "Err", out |-> None, err |-> e, hard |-> TRUE]
    /\ \A k \in 1..Len(stream) : stream[k].at < q

\* r, the result of an object parser of tag letter c applied at q, obeys the
\* commitment rule: an Error without the tag letter; with it, success or a
\* Failure that from_str returned.
Committed(r, q, c) ==
    /\ ~Matches(q, c) => r.tag = "Error"
    /\ Matches(q, c) /\ r.tag \in {"Error", "Failure"} =>
          r.tag = "Failure" /\ ReturnedHard(r.err, q)

\* C3: for every object parser built by object(), applied where the fold
\* last applied it: a mismatch on the tag letter is an Error (recoverable);
\* a failure after the tag letter matched is a Failure, and from_str
\* returned exactly that parser's error as a hard failure, with no schematic
\* and no object parsed at or after that position.  The embedding parser
\* returns an Error exactly when its tag letter '[' is missing.  (A process
\* abort inside a field parser returns no parse result at all and is not a
\* parse failure in this sense.)
C3_CommitAfterTagLetter ==
    /\ last # Nil /\ last.at > 0 =>
          IF last.stage = "version"
          THEN Committed(version_object(api, input, last.at), last.at, "v")
          ELSE \A i \in 1..Len(TagLetters) :
                  Committed(alternative(api, input, last.at, i), last.at, TagLetters[i])
    /\ \A q \in 1..Len(input) :
          /\ Matches(q, "[") => embedding(api, input, q).tag # "Error"
          /\ (last # Nil /\ q = last.at /\ ~Matches(q, "[")) =>
                embedding(api, input, q).tag = "Error"

\* A line whose fields fail after the tag letter, behind one parsed object
\* and in front of another: the failure was returned with the frame of the
\* line, and the stream holds only the first object.
C3_Witness ==
    /\ pc = "done" /\ result.tag = "Err" /\ result.hard
    /\ last.stage = "object" /\ Matches(last.at, "L")
    /\ Len(stream) = 1
    /\ \E k \in 1..Len(result.err.context) :
          result.err.context[k] = [name |-> "line", at |-> last.at]
    /\ \E q \in (last.at + 1)..Len(input) : Matches(q, "N") /\ Matches(q - 1, "\n")

----------------------------------------------------------------------------
(* from_str as one call                                                    *)

FullLeads == {<<>>, <<" ">>, <<"\n", "\t">>}

FullVersions ==
    {GoodVersion, <<"v", " ", "[", "]">>, <<"v">>, <<"x", " ", "{", "}">>,
     <<"G", " ", "{", "}">>, <<>>}

FullObjects ==
    {<<"G", " ", "{", "}">>,
     <<"L", " ", "1", " ", "0", " ", "0", " ", "1", " ", "1", " ", "{", "}">>,
     <<"N", " ", "0", " ", "0", " ", "1", " ", "1", " ", "{", "}">>}

\* What stands in front of an object: whitespace, or nothing.
FullSeparators == {<<" ">>, <<"\n">>, <<>>}

FullTrailers ==
    {<<>>, <<" ">>, <<"\n", "\t", "\r", " ">>, <<"x">>, <<" ", "X">>,
     <<"\n", "G", "{", "}">>, <<" ", "[">>}

MaxFullObjects == 2

\* lead, version object, up to MaxFullObjects separated objects, trailer.
FullBuffers ==
    {lead \o v \o Flatten([i \in 1..Len(os) |-> os[i][1] \o os[i][2]]) \o trail :
        lead \in FullLeads, v \in FullVersions,
        os \in SeqsUpTo(FullSeparators \X FullObjects, MaxFullObjects),
        trail \in FullTrailers}

InitFull ==
    /\ input \in FullBuffers
    /\ api = "span"
    /\ pc = "call"
    /\ pos = 1
    /\ sch = Nil
    /\ stream = <<>>
    /\ last = Nil
    /\ result = Nil

\* lib.rs from_str: schematic_full on the whole buffer.
from_str ==
    /\ pc = "call"
    /\ result' = schematic_full(api, input)
    /\ pc' = "done"
    /\ UNCHANGED <<input, api, pos, sch, stream, last>>

NextFull == from_str

SpecFull == InitFull /\ [][NextFull]_vars

\* The frame of name at position q is in the context of error e.
HasFrame(e, name, q) ==
    \E k \in 1..Len(e.context) : e.context[k] = [name |-> name, at |-> q]

\* C4: schematic_full skips leading whitespace and requires a version object
\* there: a returned schematic means the first character after the leading
\* whitespace is v, and when the version object fails the returned error has
\* a frame named version at the position where the version object starts.
\* For the buffer "v []" the leaf is expected-character '{' at line 1
\* column 3 and the context is the single frame version at line 1 column 1.
C4_VersionFirst ==
    pc = "done" =>
        \E q \in {multispace0(input, 1)} :
            /\ result.tag = "Ok" => Matches(q, "v")
            /\ version_object(api, input, q).tag # "Ok" =>
                  result.tag = "Err" /\ HasFrame(result.err, "version", q)
            /\ input = <<"v", " ", "[", "]">> =>
                  /\ result.tag = "Err"
                  /\ result.err.kind = [k |-> "Char", v |-> "{"]
                  /\ location_line(input, result.err.at) = 1
                  /\ get_utf8_column(input, result.err.at) = 3
                  /\ Len(result.err.context) = 1
                  /\ result.err.context[1].name = "version"
                  /\ location_line(input, result.err.context[1].at) = 1
                  /\ get_utf8_column(input, result.err.context[1].at) = 1

\* from_str returned the error of the buffer "v []".
C4_Witness ==
    /\ pc = "done"
    /\ input = <<"v", " ", "[", "]">>
    /\ result.tag = "Err" /\ result.hard
    /\ result.err.at = 3

\* C5: when schematic has parsed the version and the objects and returns the
\* rest of the buffer, schematic_full returns the schematic if the rest is
\* whitespace only, and otherwise the error of leaf kind eof located at the
\* first character of the rest that is not whitespace (an unknown tag letter,
\* an object that no whitespace precedes).
C5_TrailingInput ==
    pc = "done" =>
        \E r \in {schematic(api, input, 1)} :
            r.tag = "Ok" =>
                \E q \in {ScanWhile(input, r.pos, MultiSpace)} :
                    IF q > Len(input)
                    THEN result = [tag |-> "Ok", out |-> Some(r.out), err |-> NoErr,
                                   hard |-> FALSE]
                    ELSE /\ result.tag = "Err" /\ result.out = None
                         /\ result.err.kind = [k |-> "Nom", v |-> "Eof"]
                         /\ result.err.at = q

\* A G object with nothing in front of it, behind a parsed object and
\* whitespace-terminated: rejected with eof at the G.
C5_Witness ==
    /\ pc = "done"
    /\ result.tag = "Err"
    /\ result.err.kind = [k |-> "Nom", v |-> "Eof"]
    /\ result.err.at > 5
    /\ Matches(result.err.at, "G")
    /\ Matches(result.err.at - 1, "}")

----------------------------------------------------------------------------
(* property on its own                                                     *)

\* The pieces a property body is put together from.
PropertyPieces ==
    {<<"a", "=">>, <<"1">>, <<"2">>, <<" ">>, <<"\"">>, <<"\\">>, <<"{">>, <<"}">>}

MaxPieces == 5

PropertyBuffers ==
    {<<"{">> \o Flatten(ps) \o <<"}">> : ps \in SeqsUpTo(PropertyPieces, MaxPieces)}

InitProperty ==
    /\ input \in PropertyBuffers
    /\ api \in {"span", "str"}
    /\ pc = "call"
    /\ pos = 1
    /\ sch = Nil
    /\ stream = <<>>
    /\ last = Nil
    /\ result = Nil

\* property applied to the buffer.
call_property ==
    /\ pc = "call"
    /\ result' = property(api, input, 1)
    /\ pc' = "done"
    /\ UNCHANGED <<input, api, pos, sch, stream, last>>

NextProperty == call_property

SpecProperty == InitProperty /\ [][NextProperty]_vars

\* The number of backslashes that stand directly in front of position q.
BackslashRun(t, q) ==
    Only({q - 1 - n : n \in {IF \E i \in 1..(q - 1) : t[i] # "\\"
                             THEN CHOOSE i \in 1..(q - 1) :
                                     t[i] # "\\" /\ \A j \in (i + 1)..(q - 1) : t[j] = "\\"
                             ELSE 0}})

\* The first closing brace behind the opening one that no backslash escapes
\* (0 if there is none).
ClosingBrace(t) ==
    Only({IF cs = {} THEN 0 ELSE CHOOSE q \in cs : \A j \in cs : q <= j :
          cs \in {{q \in 2..Len(t) : t[q] = "}" /\ BackslashRun(t, q) % 2 = 0}}})

\* C6: a Property that property() returns has as prop exactly the text
\* between the opening brace and the closing brace (the first brace that is
\* not escaped), nothing cut off, and as attrs the result of attributes on
\* that prop; for "{}" prop is empty and attrs is the empty map.
C6_PropIsBraceContent ==
    pc = "done" /\ result.tag = "Ok" =>
        \E c \in {ClosingBrace(input)} :
            /\ c > 0
            /\ result.pos = c + 1
            /\ result.out.prop = MkSpan(api, 0, input, 2, c)
            /\ result.out.attrs = attributes(api, 1, SubSeq(input, 2, c - 1)).out
            /\ input = <<"{", "}">> =>
                  result.out.prop.text = <<>> /\ result.out.attrs = EmptyMap

\* The property {a=1\}}: the escaped brace belongs to prop and to the value.
C6_Witness ==
    /\ pc = "done" /\ result.tag = "Ok"
    /\ input = <<"{", "a", "=", "1", "\\", "}", "}">>
    /\ result.out.prop.text = <<"a", "=", "1", "\\", "}">>
    /\ \E k \in DOMAIN result.out.attrs :
          k.text = <<"a">> /\ result.out.attrs[k].text = <<"1", "\\", "}">>

\* C7: the attribute map holds one entry for each key text, every key once,
\* and its value is the value of the last occurrence of that key text (the
\* map of the same property read as a plain &str, whose keys are texts).
C7_DuplicateKeysKeepLast ==
    pc = "done" /\ result.tag = "Ok" =>
        /\ \A k1, k2 \in DOMAIN result.out.attrs : k1.text = k2.text => k1 = k2
        /\ \E ref \in {property("str", input, 1).out.attrs} :
              \A k \in DOMAIN result.out.attrs :
                  result.out.attrs[k].text = ref[[off |-> 0, text |-> k.text]].text

\* C8: a quoted value a="... with no closing double quote in a property is
\* a hard failure whose context has a frame named value.
C8_UnterminatedQuoteHasValueFrame ==
    (/\ pc = "done"
     /\ Len(input) >= 5
     /\ SubSeq(input, 1, 4) = <<"{", "a", "=", "\"">>
     /\ \A i \in 5..(Len(input) - 1) : input[i] \in {"1", "2", " "}) =>
        /\ result.tag = "Failure"
        /\ \E k \in 1..Len(result.err.context) : result.err.context[k].name = "value"

----------------------------------------------------------------------------
(* key_value on its own                                                    *)

ValueAlphabet == {"b", "\"", "\\", "{", "}"}

MaxValueLen == 6

\* k=" followed by up to MaxValueLen characters.
KeyValueBuffers ==
    {<<"k", "=", "\"">> \o body : body \in SeqsUpTo(ValueAlphabet, MaxValueLen)}

InitKeyValue ==
    /\ input \in KeyValueBuffers
    /\ api = "str"
    /\ pc = "call"
    /\ pos = 1
    /\ sch = Nil
    /\ stream = <<>>
    /\ last = Nil
    /\ result = Nil

\* key_value applied to the buffer.
call_key_value ==
    /\ pc = "call"
    /\ result' = key_value(api, 0, input, 1)
    /\ pc' = "done"
    /\ UNCHANGED <<input, api, pos, sch, stream, last>>

NextKeyValue == call_key_value

SpecKeyValue == InitKeyValue /\ [][NextKeyValue]_vars

\* Runs of plain characters around an escape sequence.
Plain == {<<>>, <<"b">>}

\* The buffer k="pre esc post" is accepted with the value pre esc post.
AcceptedWith(pre, esc, post) ==
    input = <<"k", "=", "\"">> \o pre \o esc \o post \o <<"\"">> =>
        /\ result.tag = "Ok"
        /\ result.pos = Len(input) + 1
        /\ result.out.v.text = pre \o esc \o post

----------------------------------------------------------------------------
(* finite_double on its own                                                *)

FloatAlphabet == {"1", "9", "0", ".", "e", "-"}

MaxFloatLen == 5

InitFloat ==
    /\ input \in SeqsUpTo(FloatAlphabet, MaxFloatLen)
    /\ api = "str"
    /\ pc = "call"
    /\ pos = 1
    /\ sch = Nil
    /\ stream = <<>>
    /\ last = Nil
    /\ result = Nil

\* finite_double applied to the buffer.
call_finite_double ==
    /\ pc = "call"
    /\ result' = finite_double(input, 1)
    /\ pc' = "done"
    /\ UNCHANGED <<input, api, pos, sch, stream, last>>

NextFloat == call_finite_double

SpecFloat == InitFloat /\ [][NextFloat]_vars

\* C10: a literal that recognize_float accepts and whose value is not finite
\* makes finite_double return an Error of leaf kind Float; the call does not
\* abort and yields no value.
C10_NonFiniteIsFloatError ==
    pc = "done" =>
        \E r \in {recognize_float(input, 1)} :
            (r.tag = "Ok" /\ ~parse_to(r.out).finite) =>
                /\ result.tag = "Error"
                /\ result.err.kind = [k |-> "Nom", v |-> "Float"]

----------------------------------------------------------------------------
(* FiniteDouble, Vec2 and Coordinates from raw f64 values                  *)

\* Vec2::try_from((f64, f64)): x.try_into()?, y.try_into()?.
Vec2_try_from(pair) ==
    Only({IF x = <<>> THEN <<>>
          ELSE Only({IF y = <<>> THEN <<>> ELSE <<[x |-> x[1], y |-> y[1]]>> :
                     y \in {FiniteDouble_try_from(pair[2])}}) :
          x \in {FiniteDouble_try_from(pair[1])}})

RECURSIVE Coordinates_try_from(_)
\* Coordinates::try_from(Vec<(f64, f64)>): map(Vec2::try_from).collect(), which
\* stops at the first Err.
Coordinates_try_from(pairs) ==
    IF pairs = <<>> THEN <<<<>>>>
    ELSE Only({IF h = <<>> THEN <<>>
               ELSE Only({IF t = <<>> THEN <<>> ELSE <<(<<h[1]>> \o t[1])>> :
                          t \in {Coordinates_try_from(Tail(pairs))}}) :
               h \in {Vec2_try_from(Head(pairs))}})

\* f64 values: zero, -1.5, 1e308, the two infinities and a NaN.
F64Samples ==
    {[finite |-> TRUE, neg |-> FALSE, digs |-> <<>>, exp |-> 0, nan |-> FALSE],
     [finite |-> TRUE, neg |-> TRUE, digs |-> <<"1", "5">>, exp |-> 1, nan |-> FALSE],
     [finite |-> TRUE, neg |-> FALSE, digs |-> <<"1">>, exp |-> 309, nan |-> FALSE],
     [finite |-> FALSE, neg |-> FALSE, digs |-> <<>>, exp |-> 0, nan |-> FALSE],
     [finite |-> FALSE, neg |-> TRUE, digs |-> <<>>, exp |-> 0, nan |-> FALSE],
     [finite |-> FALSE, neg |-> FALSE, digs |-> <<>>, exp |-> 0, nan |-> TRUE]}

MaxPairs == 2

\* Literals around the largest finite f64 (1.797e308).
FiniteLiterals ==
    {<<"0">>, <<"-", "1", ".", "5">>, <<"1", "e", "3", "0", "8">>,
     <<"2", "e", "3", "0", "8">>, <<"-", "9", "e", "9", "9", "9">>}

\* A line, a polygon and a component with an embedded wire, their numbers
\* drawn from FiniteLiterals.
FiniteBuffers ==
    {GoodVersion \o <<"\n", "L", " ", "1", " ">> \o a \o <<" ">> \o b \o <<" ">> \o c
        \o <<" ">> \o d \o <<" ", "{", "}">> :
        a \in FiniteLiterals, b \in FiniteLiterals, c \in FiniteLiterals,
        d \in FiniteLiterals}
    \cup
    {GoodVersion \o <<"\n", "P", " ", "1", " ", "2", " ", "0", " ", "1", " ">> \o a
        \o <<" ">> \o b \o <<" ", "{", "}">> :
        a \in FiniteLiterals, b \in FiniteLiterals}
    \cup
    {GoodVersion \o <<"\n", "C", " ", "{", "r", "}", " ">> \o a \o <<" ", "0", " ", "0",
        " ", "0", " ", "{", "}", "\n", "[", "\n">> \o GoodVersion
        \o <<"\n", "N", " ", "0", " ", "0", " ">> \o b \o <<" ">> \o c
        \o <<" ", "{", "}", "\n", "]">> :
        a \in FiniteLiterals, b \in FiniteLiterals, c \in FiniteLiterals}

InitFinite ==
    /\ \/ pc = "convert" /\ input \in SeqsUpTo(F64Samples \X F64Samples, MaxPairs)
       \/ pc = "call" /\ input \in FiniteBuffers
    /\ api = "span"
    /\ pos = 1
    /\ sch = Nil
    /\ stream = <<>>
    /\ last = Nil
    /\ result = Nil

\* Coordinates::try_from applied to the vector of pairs.
call_try_from ==
    /\ pc = "convert"
    /\ result' = Coordinates_try_from(input)
    /\ pc' = "converted"
    /\ UNCHANGED <<input, api, pos, sch, stream, last>>

NextFinite == call_try_from \/ from_str

SpecFinite == InitFinite /\ [][NextFinite]_vars

Vec2Doubles(v) == {v.x, v.y}

RECURSIVE FiniteDoublesOf(_)
\* Every FiniteDouble of a Schematic, those of embedded schematics included.
FiniteDoublesOf(S) ==
    UNION ({Vec2Doubles(S.texts[i].position) \cup Vec2Doubles(S.texts[i].size) :
                i \in 1..Len(S.texts)}
           \cup {Vec2Doubles(S.lines[i].start) \cup Vec2Doubles(S.lines[i].end) :
                i \in 1..Len(S.lines)}
           \cup {Vec2Doubles(S.rectangles[i].start) \cup Vec2Doubles(S.rectangles[i].end) :
                i \in 1..Len(S.rectangles)}
           \cup {UNION {Vec2Doubles(S.polygons[i].points[j]) :
                            j \in 1..Len(S.polygons[i].points)} :
                i \in 1..Len(S.polygons)}
           \cup {Vec2Doubles(S.arcs[i].center)
                    \cup {S.arcs[i].radius, S.arcs[i].start_angle, S.arcs[i].sweep_angle} :
                i \in 1..Len(S.arcs)}
           \cup {Vec2Doubles(S.wires[i].start) \cup Vec2Doubles(S.wires[i].end) :
                i \in 1..Len(S.wires)}
           \cup {Vec2Doubles(S.components[i].position)
                    \cup (IF S.components[i].embedding = None THEN {}
                          ELSE FiniteDoublesOf(S.components[i].embedding[1])) :
                i \in 1..Len(S.components)})

\* C11: FiniteDouble::try_from is Ok exactly for a finite value (Err for NaN
\* and for both infinities); Vec2::try_from and Coordinates::try_from are Ok
\* exactly when every component is finite, and then hold the components in
\* order; every FiniteDouble of a schematic that from_str returned is finite.
C11_EveryFiniteDoubleIsFinite ==
    /\ pc = "converted" =>
          /\ \A i \in 1..Len(input) : \A j \in 1..2 :
                /\ (FiniteDouble_try_from(input[i][j]) # <<>>) <=> input[i][j].finite
                /\ (input[i][j].nan \/ input[i][j] \in
                        {[finite |-> FALSE, neg |-> n, digs |-> <<>>, exp |-> 0,
                          nan |-> FALSE] : n \in BOOLEAN}) =>
                      FiniteDouble_try_from(input[i][j]) = <<>>
          /\ \A i \in 1..Len(input) :
                (Vec2_try_from(input[i]) # <<>>) <=>
                    (input[i][1].finite /\ input[i][2].finite)
          /\ (result # <<>>) <=>
                \A i \in 1..Len(input) : input[i][1].finite /\ input[i][2].finite
          /\ result # <<>> =>
                /\ Len(result[1]) = Len(input)
                /\ \A i \in 1..Len(input) :
                      result[1][i] = [x |-> input[i][1], y |-> input[i][2]]
    /\ (pc = "done" /\ result.tag = "Ok") =>
          \A d \in FiniteDoublesOf(result.out[1]) : d.finite

\* A vector whose first pair is finite and whose second pair holds a NaN is
\* refused.
C11_Witness ==
    /\ pc = "converted"
    /\ Len(input) = 2
    /\ input[1][1].finite /\ input[1][2].finite
    /\ input[2][1].finite /\ input[2][2].nan
    /\ result = <<>>

----------------------------------------------------------------------------
(* polygon_object on its own                                               *)

PolygonCounts == {<<"0">>, <<"1">>, <<"2">>, <<"3">>}

PolygonNumbers == {<<"0">>, <<"1">>, <<"2">>}

MaxNumbers == 5

\* What stands between the last number and the property: a space or a line
\* break.
PolygonFieldSeparators == {<<" ">>, <<"\n">>}

\* P 1 count, up to MaxNumbers numbers each behind one space, the property.
PolygonBuffers ==
    {<<"P", " ", "1", " ">> \o n \o Separated(<<" ">>, ns) \o fs \o <<"{", "}">> :
        n \in PolygonCounts, ns \in SeqsUpTo(PolygonNumbers, MaxNumbers),
        fs \in PolygonFieldSeparators}

InitPolygon ==
    /\ input \in PolygonBuffers
    /\ api = "str"
    /\ pc = "call"
    /\ pos = 1
    /\ sch = Nil
    /\ stream = <<>>
    /\ last = Nil
    /\ result = Nil

\* polygon_object applied to the buffer.
call_polygon_object ==
    /\ pc = "call"
    /\ result' = polygon_object(api, input, 1)
    /\ pc' = "done"
    /\ UNCHANGED <<input, api, pos, sch, stream, last>>

NextPolygon == call_polygon_object

SpecPolygon == InitPolygon /\ [][NextPolygon]_vars

RECURSIVE Tokens(_, _)
\* The maximal runs of characters other than whitespace from position p on,
\* each with the position it starts at.
Tokens(t, p) ==
    Only({IF q > Len(t) THEN <<>>
          ELSE Only({<<[at |-> q, text |-> SubSeq(t, q, e - 1)]>> \o Tokens(t, e) :
                     e \in {ScanWhile(t, q, Alpha \cup Digit \cup Punctuation)}}) :
          q \in {ScanWhile(t, p, MultiSpace)}})

\* The count a polygon buffer declares (its third token) and the numbers it
\* supplies (the tokens between the count and the property).
Declared(toks) == NatOf(toks[3].text, CountCap)

Supplied(toks) == SubSeq(toks, 4, Len(toks) - 1)

\* C12: a Polygon that polygon_object returns has as many points as the count
\* declared in the input, and its points are the coordinates of the input in
\* input order.
C12_PointsAsDeclared ==
    pc = "done" /\ result.tag = "Ok" =>
        \E toks \in {Tokens(input, 1)} : \E nums \in {Supplied(toks)} :
            /\ Len(result.out.points) = Declared(toks)
            /\ Len(nums) = 2 * Declared(toks)
            /\ \A i \in 1..Len(result.out.points) :
                  result.out.points[i] =
                      [x |-> finite_double(nums[2 * i - 1].text, 1).out,
                       y |-> finite_double(nums[2 * i].text, 1).out]

\* A polygon of two different points that follow each other.
C12_Witness ==
    /\ pc = "done" /\ result.tag = "Ok"
    /\ Len(result.out.points) = 2
    /\ result.out.points[1] # result.out.points[2]
    /\ result.out.points[1].x # result.out.points[1].y

\* C13: a Polygon that polygon_object returns has at least one point, and a
\* polygon whose declared count is 0 is not accepted.
C13_AtLeastOnePoint ==
    pc = "done" =>
        /\ result.tag = "Ok" => Len(result.out.points) >= 1
        /\ Declared(Tokens(input, 1)) = 0 => result.tag # "Ok"

----------------------------------------------------------------------------
(* Display                                                                 *)

\* n copies of the character c.
Repeat(c, n) == [i \in 1..n |-> c]

RECURSIVE Join(_, _)
\* The character sequences of ss with sep between them.
Join(ss, sep) ==
    IF ss = <<>> THEN <<>>
    ELSE IF Len(ss) = 1 THEN ss[1]
    ELSE ss[1] \o sep \o Join(Tail(ss), sep)

RECURSIVE Display_usize(_)
\* Display of an unsigned integer: its decimal digits.
Display_usize(n) ==
    IF n < 10 THEN <<DigitSeq[n + 1]>>
    ELSE Display_usize(n \div 10) \o <<DigitSeq[(n % 10) + 1]>>

\* Display of an f64 (derived for FiniteDouble): the shortest decimal that
\* reads back as the same value, never with an exponent; for a value that a
\* literal of at most 15 significant digits denotes these are the literal's
\* significant digits.
Display_f64(d) ==
    (IF d.neg THEN <<"-">> ELSE <<>>)
        \o (IF d.digs = <<>> THEN <<"0">>
            ELSE IF d.exp >= Len(d.digs)
            THEN d.digs \o Repeat("0", d.exp - Len(d.digs))
            ELSE IF d.exp > 0
            THEN SubSeq(d.digs, 1, d.exp) \o <<".">>
                    \o SubSeq(d.digs, d.exp + 1, Len(d.digs))
            ELSE <<"0", ".">> \o Repeat("0", 0 - d.exp) \o d.digs)

\* #[display("{x} {y}")]
Display_Vec2(v) == Display_f64(v.x) \o <<" ">> \o Display_f64(v.y)

\* Display for Coordinates: the points with one space between them.
Display_Coordinates(cs) == Join([i \in 1..Len(cs) |-> Display_Vec2(cs[i])], <<" ">>)

\* #[display("{{{prop}}}")]
Display_Property(p) == <<"{">> \o p.prop.text \o <<"}">>

Display_Rotation(r) ==
    CASE r = "Zero" -> <<"0">> [] r = "One" -> <<"1">>
      [] r = "Two" -> <<"2">> [] r = "Three" -> <<"3">>

\* A rendering that loses the flip: every value prints as 0.
Display_Flip_unflipped(f) == <<"0">>

Display_Flip(f) == IF f = "Unflipped" THEN <<"0">> ELSE <<"1">>

\* #[display("A {layer} {center} {radius} {start_angle} {sweep_angle} {property}")]
Display_Arc(o) ==
    <<"A", " ">> \o o.layer \o <<" ">> \o Display_Vec2(o.center) \o <<" ">>
        \o Display_f64(o.radius) \o <<" ">> \o Display_f64(o.start_angle) \o <<" ">>
        \o Display_f64(o.sweep_angle) \o <<" ">> \o Display_Property(o.property)

\* #[display("L {layer} {start} {end} {property}")]
Display_Line(o) ==
    <<"L", " ">> \o o.layer \o <<" ">> \o Display_Vec2(o.start) \o <<" ">>
        \o Display_Vec2(o.end) \o <<" ">> \o Display_Property(o.property)

\* #[display("P {layer} {npoints} {points} {property}", npoints = points.len())]
Display_Polygon(o) ==
    <<"P", " ">> \o o.layer \o <<" ">> \o Display_usize(Len(o.points)) \o <<" ">>
        \o Display_Coordinates(o.points) \o <<" ">> \o Display_Property(o.property)

\* #[display("B {layer} {start} {end} {property}")]
Display_Rectangle(o) ==
    <<"B", " ">> \o o.layer \o <<" ">> \o Display_Vec2(o.start) \o <<" ">>
        \o Display_Vec2(o.end) \o <<" ">> \o Display_Property(o.property)

\* #[display("T {{{text}}} {position} {rotation} {flip} {size} {property}")]
Display_Text(o) ==
    <<"T", " ", "{">> \o o.text.text \o <<"}", " ">> \o Display_Vec2(o.position)
        \o <<" ">> \o Display_Rotation(o.rotation) \o <<" ">> \o Display_Flip(o.flip)
        \o <<" ">> \o Display_Vec2(o.size) \o <<" ">> \o Display_Property(o.property)

\* #[display("N {start} {end} {property}")]
Display_Wire(o) ==
    <<"N", " ">> \o Display_Vec2(o.start) \o <<" ">> \o Display_Vec2(o.end)
        \o <<" ">> \o Display_Property(o.property)

RECURSIVE Display_Schematic(_)

\* #[display("[\n{_0}\n]")]
Display_Embedding(em) == <<"[", "\n">> \o Display_Schematic(em) \o <<"\n", "]">>

\* Display for Component: the line of the component, then the embedding if
\* there is one, behind a newline.
Display_Component(o) ==
    <<"C", " ", "{">> \o o.reference.text \o <<"}", " ">> \o Display_Vec2(o.position)
        \o <<" ">> \o Display_Rotation(o.rotation) \o <<" ">> \o Display_Flip(o.flip)
        \o <<" ">> \o Display_Property(o.property)
        \o (IF o.embedding = None THEN <<>>
            ELSE <<"\n">> \o Display_Embedding(o.embedding[1]))

\* Display of one object of the sequence of tag letter c.
Display_Object(c, o) ==
    CASE c = "T" -> Display_Text(o)
      [] c = "L" -> Display_Line(o)
      [] c = "B" -> Display_Rectangle(o)
      [] c = "P" -> Display_Polygon(o)
      [] c = "A" -> Display_Arc(o)
      [] c = "N" -> Display_Wire(o)
      [] c = "C" -> Display_Component(o)

\* Display for Objects: the objects with a newline between them.
Display_Objects(c, os) == Join([i \in 1..Len(os) |-> Display_Object(c, os[i])], <<"\n">>)

\* Display for Schematic with the spice property in front of the others.
Display_Schematic_spice_first(S) ==
    <<"v", " ">> \o Display_Property(S.version)
        \o (IF S.spice_property # None
            THEN <<"\n", "S", " ">> \o Display_Property(S.spice_property[1]) ELSE <<>>)
        \o (IF S.vhdl_property # None
            THEN <<"\n", "G", " ">> \o Display_Property(S.vhdl_property[1]) ELSE <<>>)
        \o (IF S.symbol_property # None
            THEN <<"\n", "K", " ">> \o Display_Property(S.symbol_property[1]) ELSE <<>>)
        \o (IF S.verilog_property # None
            THEN <<"\n", "V", " ">> \o Display_Property(S.verilog_property[1]) ELSE <<>>)
        \o (IF S.tedax_property # None
            THEN <<"\n", "E", " ">> \o Display_Property(S.tedax_property[1]) ELSE <<>>)
        \o (IF S.texts # <<>> THEN <<"\n">> \o Display_Objects("T", S.texts) ELSE <<>>)
        \o (IF S.lines # <<>> THEN <<"\n">> \o Display_Objects("L", S.lines) ELSE <<>>)
        \o (IF S.rectangles # <<>>
            THEN <<"\n">> \o Display_Objects("B", S.rectangles) ELSE <<>>)
        \o (IF S.polygons # <<>> THEN <<"\n">> \o Display_Objects("P", S.polygons) ELSE <<>>)
        \o (IF S.arcs # <<>> THEN <<"\n">> \o Display_Objects("A", S.arcs) ELSE <<>>)
        \o (IF S.wires # <<>> THEN <<"\n">> \o Display_Objects("N", S.wires) ELSE <<>>)
        \o (IF S.components # <<>>
            THEN <<"\n">> \o Display_Objects("C", S.components) ELSE <<>>)

\* Display for Schematic: the version, each property that is present, each
\* sequence that is not empty, every one behind a newline.
Display_Schematic(S) ==
    <<"v", " ">> \o Display_Property(S.version)
        \o (IF S.vhdl_property # None
            THEN <<"\n", "G", " ">> \o Display_Property(S.vhdl_property[1]) ELSE <<>>)
        \o (IF S.symbol_property # None
            THEN <<"\n", "K", " ">> \o Display_Property(S.symbol_property[1]) ELSE <<>>)
        \o (IF S.verilog_property # None
            THEN <<"\n", "V", " ">> \o Display_Property(S.verilog_property[1]) ELSE <<>>)
        \o (IF S.spice_property # None
            THEN <<"\n", "S", " ">> \o Display_Property(S.spice_property[1]) ELSE <<>>)
        \o (IF S.tedax_property # None
            THEN <<"\n", "E", " ">> \o Display_Property(S.tedax_property[1]) ELSE <<>>)
        \o (IF S.texts # <<>> THEN <<"\n">> \o Display_Objects("T", S.texts) ELSE <<>>)
        \o (IF S.lines # <<>> THEN <<"\n">> \o Display_Objects("L", S.lines) ELSE <<>>)
        \o (IF S.rectangles # <<>>
            THEN <<"\n">> \o Display_Objects("B", S.rectangles) ELSE <<>>)
        \o (IF S.polygons # <<>> THEN <<"\n">> \o Display_Objects("P", S.polygons) ELSE <<>>)
        \o (IF S.arcs # <<>> THEN <<"\n">> \o Display_Objects("A", S.arcs) ELSE <<>>)
        \o (IF S.wires # <<>> THEN <<"\n">> \o Display_Objects("N", S.wires) ELSE <<>>)
        \o (IF S.components # <<>>
            THEN <<"\n">> \o Display_Objects("C", S.components) ELSE <<>>)

----------------------------------------------------------------------------
(* Parse, render, parse again                                              *)

\* Objects of every kind: numbers written with leading zeros, a bare point,
\* an exponent; a polygon without points; properties with attributes, an
\* escaped brace, a line break; components with embedded schematics.
RenderObjects ==
    {<<"G", " ", "{", "a", "=", "1", "}">>,
     <<"K", " ", "{", "t", "y", "p", "e", "=", "r", "}">>,
     <<"V", " ", "{", "}">>,
     <<"S", " ", "{", "}">>,
     <<"E", " ", "{", "a", "=", "\\", "}", "}">>,
     <<"T", " ", "{", "t", "}", " ", "0", ".", "5", " ", "-", "1", " ", "1", " ", "0", " ", ".", "2", "5", " ", "1", "e", "1", " ", "{", "}">>,
     <<"L", " ", "0", "0", "7", " ", "0", " ", "0", " ", "1", ".", "5", "0", " ", "-", "0", " ", "{", "}">>,
     <<"B", " ", "2", " ", "1", " ", "1", " ", "2", " ", "2", " ", "{", "b", "=", "2", "}">>,
     <<"P", " ", "1", " ", "0", " ", "{", "}">>,
     <<"P", " ", "3", " ", "2", " ", "0", " ", "0", " ", "1", " ", "1", " ", "{", "}">>,
     <<"A", " ", "1", " ", "0", " ", "0", " ", "5", ".", " ", "0", " ", "9", "0", " ", "{", "}">>,
     <<"N", " ", "1", " ", "1", " ", "2", " ", "2", " ", "{", "l", "a", "b", "=", "o", "}">>,
     <<"C", " ", "{", "r", "}", " ", "3", " ", "3", " ", "0", " ", "1", " ", "{", "n", "a", "m", "e", "=", "p", "i", "n", "\n", "}">>,
     <<"C", " ", "{", "p", "}", " ", "1", " ", "1", " ", "2", " ", "0", " ", "{", "}", "\n", "[", "\n", "v", " ", "{", "e", "}", "\n", "S", " ", "{", "}", "\n", "K", " ", "{", "}", "\n", "N", " ", "0", " ", "0", " ", "1", " ", "1", " ", "{", "}", "\n", "]">>,
     <<"C", " ", "{", "q", "}", " ", "0", " ", "0", " ", "3", " ", "0", " ", "{", "}", "\n", "[", "\n", "v", " ", "{", "}", "\n", "]">>}

MaxRenderObjects == 2

RenderVersions == {<<"v", " ", "{", "}">>, <<"v", " ", "{", "x", "=", "1", " ", "f", "=", "1", ".", "2", "}">>}

RenderBuffers ==
    {v \o Separated(<<"\n">>, os) :
        v \in RenderVersions, os \in SeqsUpTo(RenderObjects, MaxRenderObjects)}

InitRender ==
    /\ input \in RenderBuffers
    /\ api = "str"
    /\ pc = "call"
    /\ pos = 1
    /\ sch = Nil
    /\ stream = <<>>
    /\ last = Nil
    /\ result = Nil

\* Schematic::try_from(&str): schematic_full on the buffer; the schematic it
\* returns is kept.
parse_str ==
    /\ pc = "call"
    /\ \E r \in {schematic_full(api, input)} :
          /\ result' = r
          /\ IF r.tag = "Ok"
             THEN sch' = r.out[1] /\ pc' = "parsed"
             ELSE sch' = sch /\ pc' = "done"
    /\ UNCHANGED <<input, api, pos, stream, last>>

\* Schematic::to_string: the rendered text becomes the next buffer.
to_string ==
    /\ pc = "parsed"
    /\ input' = Display_Schematic(sch)
    /\ pc' = "rendered"
    /\ UNCHANGED <<api, pos, sch, stream, last, result>>

\* schematic_full on the rendered text.
parse_rendered ==
    /\ pc = "rendered"
    /\ result' = schematic_full(api, input)
    /\ pc' = "reparsed"
    /\ UNCHANGED <<input, api, pos, sch, stream, last>>

NextRender == parse_str \/ to_string \/ parse_rendered

SpecRender == InitRender /\ [][NextRender]_vars

\* C15: the text that Display renders for a schematic schematic_full
\* returned parses, with schematic_full, to a schematic equal to it (the
\* input type is &str, whose equality is that of the text), embeddings
\* included.
C15_RoundTrip ==
    pc = "reparsed" =>
        /\ result.tag = "Ok"
        /\ result.out[1] = sch

\* A schematic with a component that embeds a schematic with objects of its
\* own, and a line whose numbers are written otherwise than Display writes
\* them, has been rendered and read back.
C15_Witness ==
    /\ pc = "reparsed"
    /\ result.tag = "Ok"
    /\ Len(sch.components) = 1
    /\ sch.components[1].embedding # None
    /\ sch.components[1].embedding[1].wires # <<>>
    /\ Len(sch.lines) = 1
    /\ result.out[1].components = sch.components

----------------------------------------------------------------------------
(* The order of the rendering                                              *)

\* The line of a singleton property, if it is present.
PresentLine(c, p) ==
    IF p = None THEN <<>> ELSE << <<c, " ">> \o Display_Property(p[1]) >>

\* The rendering of every object of a sequence, in the sequence's order.
ObjectBlocks(c, os) == [i \in 1..Len(os) |-> Display_Object(c, os[i])]

\* The blocks of a schematic in the order of the fields of Display: the
\* version, the properties that are present, the objects by kind.
RenderedBlocks(S) ==
    << <<"v", " ">> \o Display_Property(S.version) >>
        \o PresentLine("G", S.vhdl_property)
        \o PresentLine("K", S.symbol_property)
        \o PresentLine("V", S.verilog_property)
        \o PresentLine("S", S.spice_property)
        \o PresentLine("E", S.tedax_property)
        \o ObjectBlocks("T", S.texts)
        \o ObjectBlocks("L", S.lines)
        \o ObjectBlocks("B", S.rectangles)
        \o ObjectBlocks("P", S.polygons)
        \o ObjectBlocks("A", S.arcs)
        \o ObjectBlocks("N", S.wires)
        \o ObjectBlocks("C", S.components)

IsPrefix(a, b) == Len(a) <= Len(b) /\ SubSeq(b, 1, Len(a)) = a

\* C17: a schematic with a spice and a symbol property renders the spice
\* line right after the version line and the symbol line after it; a
\* component with an embedding renders as its line, then "[", the embedded
\* schematic and "]", each on a line of its own.
C17_SpiceLineBeforeSymbolLine ==
    pc = "rendered" =>
        /\ (sch.spice_property # None /\ sch.symbol_property # None) =>
              IsPrefix(<<"v", " ">> \o Display_Property(sch.version)
                           \o <<"\n", "S", " ">> \o Display_Property(sch.spice_property[1])
                           \o <<"\n", "K", " ">> \o Display_Property(sch.symbol_property[1]),
                       input)
        /\ \A i \in 1..Len(sch.components) :
              sch.components[i].embedding # None =>
                  \E k \in 1..Len(input) :
                      /\ input[k] = "["
                      /\ k > 1 /\ input[k - 1] = "\n"
                      /\ IsPrefix(<<"[", "\n">>
                                      \o Display_Schematic(sch.components[i].embedding[1])
                                      \o <<"\n", "]">>,
                                  SubSeq(input, k, Len(input)))

----------------------------------------------------------------------------
(* The separators between the fields of an object                          *)

\* One object of every kind as its tokens: the tag, the fields, the points
\* of a polygon one number at a time, the parts of an embedding.
FieldObjects ==
    {<<<<"A">>, <<"1">>, <<"0">>, <<"0">>, <<"5">>, <<"0">>, <<"9", "0">>, <<"{", "}">>>>,
     <<<<"L">>, <<"1">>, <<"0">>, <<"0">>, <<"1">>, <<"1">>, <<"{", "}">>>>,
     <<<<"P">>, <<"1">>, <<"1">>, <<"0">>, <<"0">>, <<"{", "}">>>>,
     <<<<"P">>, <<"1">>, <<"2">>, <<"0">>, <<"0">>, <<"1">>, <<"1">>, <<"{", "a", "=", "1", "}">>>>,
     <<<<"B">>, <<"2">>, <<"1">>, <<"1">>, <<"2">>, <<"2">>, <<"{", "}">>>>,
     <<<<"T">>, <<"{", "t", "}">>, <<"0">>, <<"0">>, <<"1">>, <<"0">>, <<"1">>, <<"1">>, <<"{", "}">>>>,
     <<<<"N">>, <<"1">>, <<"1">>, <<"2">>, <<"2">>, <<"{", "l", "a", "b", "=", "o", "}">>>>,
     <<<<"C">>, <<"{", "r", "}">>, <<"3">>, <<"3">>, <<"0">>, <<"1">>, <<"{", "}">>>>,
     <<<<"C">>, <<"{", "p", "}">>, <<"1">>, <<"1">>, <<"2">>, <<"0">>, <<"{", "}">>, <<"[">>, <<"v">>, <<"{", "}">>, <<"]">>>>,
     <<<<"G">>, <<"{", "}">>>>}

\* Runs of whitespace: each character alone, and runs of two.
FieldSeparators == {<<" ">>,
                    <<"\t">>,
                    <<"\n">>,
                    <<"\r">>,
                    <<" ", " ">>,
                    <<"\r", "\n">>,
                    <<" ", "\n">>,
                    <<"\t", " ">>}

\* The tokens with the run w in the gap after token k and one space in
\* every other gap.
FieldBuffer(toks, k, w) ==
    Flatten([i \in 1..Len(toks) |->
                (IF i = 1 THEN <<>> ELSE IF i - 1 = k THEN w ELSE <<" ">>) \o toks[i]])

FieldBuffers ==
    UNION {{FieldBuffer(toks, k, w) : k \in 1..(Len(toks) - 1), w \in FieldSeparators} :
           toks \in FieldObjects}

InitFields ==
    /\ input \in FieldBuffers
    /\ api = "str"
    /\ pc = "call"
    /\ pos = 1
    /\ sch = Nil
    /\ stream = <<>>
    /\ last = Nil
    /\ result = Nil

\* any_object applied to the buffer.
call_any_object ==
    /\ pc = "call"
    /\ result' = any_object(api, input, 1)
    /\ pc' = "done"
    /\ UNCHANGED <<input, api, pos, sch, stream, last>>

NextFields == call_any_object

SpecFields == InitFields /\ [][NextFields]_vars

\* The tokens of a buffer with one space between two of them.
SingleSpaced(t) ==
    Only({Join([i \in 1..Len(toks) |-> toks[i].text], <<" ">>) : toks \in {Tokens(t, 1)}})

\* C18: whichever run of spaces, tabs, carriage returns and newlines stands
\* before a field of an object - the count and every point of a polygon
\* included - the object is read, and read as the same entity as with single
\* spaces.
C18_AnyWhitespaceSeparatesFields ==
    pc = "done" =>
        /\ result.tag = "Ok"
        /\ result.out = any_object(api, SingleSpaced(input), 1).out

----------------------------------------------------------------------------
(* The leaf and the frames of an error that unwinds                        *)

\* The names of the frames of an error, in the order of its context vector.
FrameNames(err) == [i \in 1..Len(err.context) |-> err.context[i].name]

\* C19: an error that unwinds keeps the leaf of the innermost failure and
\* gains one frame per named combinator it leaves, the innermost first.  For
\* a quoted value that is never closed the innermost failure is the missing
\* closing quote, inside "value" inside "key_value": the error of the
\* property has that leaf and those two frames, in that order.
C19_LeafKeptAndFramePerCombinator ==
    (/\ pc = "done"
     /\ Len(input) >= 5
     /\ SubSeq(input, 1, 4) = <<"{", "a", "=", "\"">>
     /\ input[Len(input)] = "}"
     /\ \A i \in 5..(Len(input) - 1) : input[i] \in {"1", "2", " "}) =>
        /\ result.tag = "Failure"
        /\ result.err.kind = [k |-> "Char", v |-> "\""]
        /\ result.err.at = Len(input)
        /\ FrameNames(result.err) = <<"value", "key_value">>

----------------------------------------------------------------------------
(* The command line program                                                *)

\* In this part stream holds the arguments of the command line, pos the
\* index of the next one, input the contents of the file read last, last
\* what the last argument came to, and result the two counters of the fold
\* with the exit code.

MaxArgs == 3

\* The contents of files: schematics that parse, texts that do not, and a
\* schematic with a number beyond the range of f64.
CliContents ==
    {<<"v", " ", "{", "}">>,
     <<"v", " ", "{", "}", "\n", "L", " ", "1", " ", "0", " ", "0", " ", "1", " ", "1", " ", "{", "}", "\n">>,
     <<"v", " ", "{", "}", "\n", "X">>,
     <<>>,
     <<"v", " ", "{", "}", "\n", "L", " ", "1", " ", "0", " ", "0", " ", "1", " ", "{", "}">>,
     <<"v", " ", "{", "}", "\n", "L", " ", "1", " ", "0", " ", "0", " ", "1", " ", "1", "e", "9", "9", "9", " ", "{", "}">>}

\* A path names a file that read_to_string can read, with its contents, or
\* one it cannot (missing, a directory, not UTF-8).
CliFiles ==
    {[readable |-> TRUE, contents |-> c] : c \in CliContents}
        \cup {[readable |-> FALSE, contents |-> <<>>]}

\* from_str_file: the parse of schematic_full over a located span that
\* carries the path.
from_str_file(s) == schematic_full("span", s)

\* What one argument comes to in the closure of the fold.
ArgOutcome(a) ==
    IF ~a.readable THEN "read error"
    ELSE Only({IF r.tag = "Ok" THEN "ok"
               ELSE IF r.tag = "Panic" THEN "panic" ELSE "parse error" :
               r \in {from_str_file(a.contents)}})

InitCli ==
    /\ stream \in SeqsUpTo(CliFiles, MaxArgs)
    /\ api = "span"
    /\ pc = "fold"
    /\ pos = 1
    /\ input = <<>>
    /\ sch = Nil
    /\ last = Nil
    /\ result = [count |-> 0, errors |-> 0, exit |-> Nil]

\* One step of the fold over the arguments: the file is read and parsed and
\* the counters move on; a panic inside the parser ends the process with the
\* exit code of a panic.
fold_arg ==
    /\ pc = "fold"
    /\ pos <= Len(stream)
    /\ \E o \in {ArgOutcome(stream[pos])} :
          /\ last' = o
          /\ result' = IF o = "panic" THEN [result EXCEPT !.exit = "PANIC"]
                       ELSE IF o = "ok" THEN [result EXCEPT !.count = @ + 1]
                       ELSE [result EXCEPT !.count = @ + 1, !.errors = @ + 1]
          /\ pc' = IF o = "panic" THEN "aborted" ELSE "fold"
          /\ pos' = IF o = "panic" THEN pos ELSE pos + 1
    /\ input' = IF stream[pos].readable THEN stream[pos].contents ELSE input
    /\ UNCHANGED <<api, sch, stream>>

\* After the fold: success if no error was counted, failure otherwise.
exit_code ==
    /\ pc = "fold"
    /\ pos > Len(stream)
    /\ result' = [result EXCEPT !.exit = IF result.errors = 0 THEN "SUCCESS" ELSE "FAILURE"]
    /\ pc' = "exited"
    /\ UNCHANGED <<input, api, pos, sch, stream, last>>

NextCli == fold_arg \/ exit_code

SpecCli == InitCli /\ [][NextCli]_vars

\* C20: when the program ends every argument was processed, a file that
\* could not be read or parsed not stopping it; it ends with success exactly
\* if no argument was in error (with no argument: success); and the counter
\* of errors never exceeds the counter of files.
C20_EveryArgumentProcessed ==
    /\ result.errors <= result.count
    /\ pc \in {"exited", "aborted"} =>
          /\ pos = Len(stream) + 1
          /\ result.count = Len(stream)
          /\ (result.exit = "SUCCESS") <=>
                 (\A i \in 1..Len(stream) : ArgOutcome(stream[i]) = "ok")

----------------------------------------------------------------------------
(* The recursion of embedding, one call at a time                          *)

\* embedding calls schematic, whose fold calls any_object, whose component
\* calls embedding.  Here each call of schematic is entered and left by an
\* action, and the calls that are open are kept on a stack: in this part
\* stream is that stack, innermost call last, each frame with the position of
\* its component and of its "[", the schematic the enclosing fold had
\* gathered and the fields of the component; sch is the schematic the
\* innermost fold has gathered and pos the position it has reached.

MaxEmbeddingDepth == 65

MaxInnerObjects == 1

\* Depths of nesting: none, shallow ones, and the deepest.
NestingDepths == {0, 1, 2, MaxEmbeddingDepth - 1, MaxEmbeddingDepth}

\* Objects of the innermost schematic; the last is not an object.
InnerObjects ==
    {<<"N", " ", "0", " ", "0", " ", "1", " ", "1", " ", "{", "}">>,
     <<"L", " ", "1", " ", "0", " ", "0", " ", "1", " ", "1", " ", "{", "}">>,
     <<"C", " ", "{", "i", "}", " ", "0", " ", "0", " ", "0", " ", "0", " ", "{", "}">>,
     <<"T", " ", "{", "t", "}", " ", "0", " ", "0", " ", "0", " ", "0", " ", "1", " ", "1", " ", "{", "a", "=", "1", "}">>,
     <<"G", " ", "{", "}">>,
     <<"X">>}

RECURSIVE Nested(_, _)
\* A schematic whose component embeds a schematic, d times over, the
\* innermost one with the objects os.
Nested(d, os) ==
    IF d = 0 THEN GoodVersion \o Separated(<<"\n">>, os)
    ELSE GoodVersion
             \o <<"\n", "C", " ", "{", "r", "}", " ", "0", " ", "0", " ", "0", " ", "0", " ", "{", "}", "\n", "[", "\n">>
             \o Nested(d - 1, os) \o <<"\n", "]">>

NestedBuffers ==
    {Nested(d, os) : d \in NestingDepths, os \in SeqsUpTo(InnerObjects, MaxInnerObjects)}

RECURSIVE Unwind(_, _)
\* An error on its way out of the open calls: each embedding cuts it and
\* adds its frame, and so does the component around it.
Unwind(r, st) ==
    IF st = <<>> THEN r
    ELSE Unwind(context(st[Len(st)].cat, "component",
                        cut(context(st[Len(st)].open, "embedded symbol", cut(r)))),
                SubSeq(st, 1, Len(st) - 1))

\* Where a step leaves the parse.
Goto(to, p, acc, st, res) == [pc |-> to, pos |-> p, sch |-> acc, stream |-> st, result |-> res]

Halt(r, p, acc, st) == Goto("done", p, acc, st, finish(Unwind(r, st)))

InitNested ==
    /\ input \in NestedBuffers
    /\ api = "span"
    /\ pc = "schematic"
    /\ pos = 1
    /\ sch = Nil
    /\ stream = <<>>
    /\ last = Nil
    /\ result = Nil

\* schematic is entered: multispace0, version_object, Schematic::new.
EnterSchematic(s, p, acc, st) ==
    Only({IF v.tag = "Ok" THEN Goto("fold", v.pos, Schematic_new(v.out), st, Nil)
          ELSE Halt(v, p, acc, st) :
          v \in {version_object(api, s, multispace0(s, p))}})

\* The component at c, its fields read up to f: with a "[" behind whitespace
\* embedding is entered, without one the component is complete.
ComponentOutcome(s, p, acc, st, c, f) ==
    Only({IF w.tag = "Ok" /\ w.pos <= Len(s) /\ s[w.pos] = "["
          THEN Only({IF i.tag = "Ok"
                     THEN Goto("schematic", i.pos, Nil, e, Nil)
                     ELSE Halt(i, p, acc, e) :
                     i \in {multispace1(s, w.pos + 1)},
                     e \in {Append(st, [cat |-> c, open |-> w.pos, acc |-> acc,
                                        comp |-> f.out])}})
          ELSE Goto("fold", f.pos,
                    add_object(acc, [kind |-> "Component",
                                     val |-> [reference |-> f.out[1], position |-> f.out[2],
                                              rotation |-> f.out[3], flip |-> f.out[4],
                                              property |-> f.out[5], embedding |-> None]]),
                    st, Nil) :
          w \in {multispace1(s, f.pos)}})

\* One iteration of the fold of the innermost call.
FoldOutcome(s, p, acc, st) ==
    Only({IF w.tag = "Ok" /\ w.pos <= Len(s) /\ s[w.pos] = "C"
          THEN Only({IF f.tag # "Ok"
                     THEN Halt(context(w.pos, "component", cut(f)), p, acc, st)
                     ELSE ComponentOutcome(s, p, acc, st, w.pos, f) :
                     f \in {fields(api, s, w.pos + 1,
                                   <<"reference", "coordinate", "rotation", "flip",
                                     "property">>, <<>>)}})
          ELSE Only({IF r.tag = "Continue" THEN Goto("fold", r.pos, r.out, st, Nil)
                     ELSE IF r.tag = "Done" THEN Goto("close", p, acc, st, Nil)
                     ELSE Halt(Fail(r.tag, r.err), p, acc, st) :
                     r \in {fold_step(api, s, p, acc)}}) :
          w \in {multispace1(s, p)}})

\* The fold of the innermost call is over: at the top eof and finish, in an
\* embedding the "]" behind whitespace, and the component joins the fold of
\* the call around it.
CloseOutcome(s, p, acc, st) ==
    IF st = <<>>
    THEN Only({Goto("done", p, acc, st,
                    IF e.tag = "Ok" THEN finish(Ok(e.pos, acc)) ELSE finish(e)) :
               e \in {eof(s, p)}})
    ELSE Only({IF w.tag # "Ok" THEN Halt(w, p, acc, st)
               ELSE IF ~(w.pos <= Len(s) /\ s[w.pos] = "]")
               THEN Halt(Fail("Error", from_char(w.pos, "]")), p, acc, st)
               ELSE Goto("fold", w.pos + 1,
                         add_object(fr.acc,
                                    [kind |-> "Component",
                                     val |-> [reference |-> fr.comp[1],
                                              position |-> fr.comp[2],
                                              rotation |-> fr.comp[3], flip |-> fr.comp[4],
                                              property |-> fr.comp[5],
                                              embedding |-> Some(acc)]]),
                         SubSeq(st, 1, Len(st) - 1), Nil) :
               w \in {multispace1(s, p)}, fr \in {st[Len(st)]}})

enter_schematic ==
    /\ pc = "schematic"
    /\ \E o \in {EnterSchematic(input, pos, sch, stream)} :
           /\ pc' = o.pc /\ pos' = o.pos /\ sch' = o.sch
           /\ stream' = o.stream /\ result' = o.result
    /\ UNCHANGED <<input, api, last>>

fold_object ==
    /\ pc = "fold"
    /\ \E o \in {FoldOutcome(input, pos, sch, stream)} :
           /\ pc' = o.pc /\ pos' = o.pos /\ sch' = o.sch
           /\ stream' = o.stream /\ result' = o.result
    /\ UNCHANGED <<input, api, last>>

close_schematic ==
    /\ pc = "close"
    /\ \E o \in {CloseOutcome(input, pos, sch, stream)} :
           /\ pc' = o.pc /\ pos' = o.pos /\ sch' = o.sch
           /\ stream' = o.stream /\ result' = o.result
    /\ UNCHANGED <<input, api, last>>

NextNested == enter_schematic \/ fold_object \/ close_schematic

SpecNested == InitNested /\ [][NextNested]_vars

\* The number of "[" of a buffer: in these buffers, the depth of the nesting.
NestingDepth(t) == Cardinality({i \in 1..Len(t) : t[i] = "["})

\* C21: the depth of the nesting is capped, and an input nested deeper than
\* the cap is rejected with a parse error instead of being descended into.
\* With the cap of 64 levels: no more than 64 calls of embedding are ever
\* open, and an input nested MaxEmbeddingDepth = 65 deep is rejected.
C21_NestingDepthIsCapped ==
    /\ Len(stream) < MaxEmbeddingDepth
    /\ (pc = "done" /\ NestingDepth(input) = MaxEmbeddingDepth) => result.tag = "Err"

----------------------------------------------------------------------------
(* property_string and the braces around it, on their own                  *)

MaxStringLen == 4

StringChars == {"a", "\\", "{", "}"}

\* The parsers with a property string in them.
StringParsers == {"property_string", "property", "text", "reference"}

InitString ==
    /\ input \in SeqsUpTo(StringChars, MaxStringLen)
    /\ last \in StringParsers
    /\ api = "span"
    /\ pc = "call"
    /\ pos = 1
    /\ sch = Nil
    /\ stream = <<>>
    /\ result = Nil

\* The parser named by last applied to the buffer; property_string is taken
\* with the context the property gives it.
call_string_parser ==
    /\ pc = "call"
    /\ result' = CASE last = "property_string" -> property_string(input, 1, "property")
                   [] last = "property" -> property(api, input, 1)
                   [] last = "text" -> text(api, input, 1)
                   [] last = "reference" -> reference(api, input, 1)
    /\ pc' = "done"
    /\ UNCHANGED <<input, api, pos, sch, stream, last>>

NextString == call_string_parser

SpecString == InitString /\ [][NextString]_vars

\* The number of backslashes that stand in a row right before position i of
\* t, counted back to position a.
BackslashesBefore(t, a, i) ==
    Cardinality({j \in a..(i - 1) : \A k \in j..(i - 1) : t[k] = "\\"})

\* The character at i is free of an escaping backslash: an even number of
\* backslashes stand before it.
Unescaped(t, a, i) == BackslashesBefore(t, a, i) % 2 = 0

\* The first position from a on that holds an unescaped brace, and the first
\* that holds an escaping backslash with nothing it may escape behind it
\* (Len(t) + 1 if there is none).
FirstBrace(t, a) ==
    Only({IF S = {} THEN Len(t) + 1 ELSE CHOOSE i \in S : \A j \in S : i <= j :
          S \in {{i \in a..Len(t) : t[i] \in {"{", "}"} /\ Unescaped(t, a, i)}}})

FirstBadEscape(t, a) ==
    Only({IF S = {} THEN Len(t) + 1 ELSE CHOOSE i \in S : \A j \in S : i <= j :
          S \in {{i \in a..Len(t) :
                     /\ t[i] = "\\" /\ Unescaped(t, a, i)
                     /\ (i = Len(t) \/ t[i + 1] \notin {"\\", "{", "}"})}}})

\* C22: property_string returns the text before the first brace that no
\* backslash escapes, escapes left as they are (all of the input if there is
\* no such brace), and is an Error of kind Escaped when before that brace a
\* backslash is the last character or stands before a character other than
\* backslash and braces; so in a property, a text and a reference an unescaped
\* "{" in the body is a Failure that expected "}" there.
C22_PropertyStringEndsAtUnescapedBrace ==
    pc = "done" =>
        /\ last = "property_string" =>
              IF FirstBadEscape(input, 1) < FirstBrace(input, 1)
              THEN /\ result.tag = "Error"
                   /\ result.err.kind = [k |-> "Nom", v |-> "Escaped"]
              ELSE /\ result.tag = "Ok"
                   /\ result.pos = FirstBrace(input, 1)
                   /\ result.out = [from |-> 1, to |-> FirstBrace(input, 1)]
        /\ (/\ last # "property_string"
            /\ input # <<>> /\ input[1] = "{"
            /\ FirstBrace(input, 2) < FirstBadEscape(input, 2)
            /\ input[FirstBrace(input, 2)] = "{") =>
              /\ result.tag = "Failure"
              /\ result.err.kind = [k |-> "Char", v |-> "}"]
              /\ result.err.at = FirstBrace(input, 2)

\* An escaped brace is passed over and the brace behind it ends the string.
C22_Witness ==
    /\ pc = "done"
    /\ last = "property_string"
    /\ input = <<"\\", "{", "a", "}">>
    /\ result.tag = "Ok"
    /\ result.out = [from |-> 1, to |-> 4]

----------------------------------------------------------------------------
(* The value between the quotes                                            *)

\* The double quotes of the buffer k="... behind the opening one that no
\* backslash stands before.
ClosingQuotes(t) == {i \in 4..Len(t) : t[i] = "\"" /\ t[i - 1] # "\\"}

\* C23: the value key_value returns for a quoted value is the text between
\* the opening quote and the quote that ends it, escapes left as they are;
\* a quote behind two backslashes is part of the value and does not end it;
\* and "" gives the empty value.
C23_QuotedValueIsTextBetweenQuotes ==
    pc = "done" =>
        /\ result.tag = "Ok" =>
              \E c \in ClosingQuotes(input) :
                  /\ \A j \in ClosingQuotes(input) : c <= j
                  /\ result.out.k.text = <<"k">>
                  /\ result.out.v.text = SubSeq(input, 4, c - 1)
                  /\ result.pos = c + 1
        /\ (/\ Len(input) >= 7
            /\ SubSeq(input, 4, 7) = <<"\\", "\\", "\"", "\"">>) =>
              /\ result.tag = "Ok"
              /\ result.out.v.text = <<"\\", "\\", "\"">>
        /\ (Len(input) >= 4 /\ input[4] = "\"") =>
              /\ result.tag = "Ok"
              /\ result.out.v.text = <<>>
              /\ result.pos = 5

\* The value {\\"}: the quote behind the two backslashes belongs to it, and
\* the text behind the closing quote is left.
C23_Witness ==
    /\ pc = "done"
    /\ input = <<"k", "=", "\"", "{", "\\", "\\", "\"", "}", "\"">>
    /\ result.tag = "Ok"
    /\ result.out.v.text = <<"{", "\\", "\\", "\"", "}">>
    /\ result.pos = 10

----------------------------------------------------------------------------
(* A polygon with fewer points than it declares                            *)

\* C24: a polygon that declares more points than the complete coordinates
\* it supplies, a single number behind the last complete point included, is
\* a hard failure of character kind located at the opening brace of the
\* property, where the next number was required.
C24_TooFewPointsFailAtBrace ==
    pc = "done" =>
        \E toks \in {Tokens(input, 1)} : \E nums \in {Supplied(toks)} :
            Len(nums) < 2 * Declared(toks) =>
                /\ result.tag = "Failure"
                /\ result.err.kind.k = "Char"
                /\ result.err.at = toks[Len(toks)].at

----------------------------------------------------------------------------
(* try_skip(key_value) on its own                                          *)

MaxSkipLen == 5

SkipChars == {"a", "=", "\"", "\\", " "}

InitSkip ==
    /\ input \in SeqsUpTo(SkipChars, MaxSkipLen)
    /\ api = "str"
    /\ pc = "call"
    /\ pos = 1
    /\ sch = Nil
    /\ stream = <<>>
    /\ last = Nil
    /\ result = Nil

\* try_skip(key_value) applied to the buffer.
call_try_skip ==
    /\ pc = "call"
    /\ result' = try_skip(0, key_value(api, 0, input, 1))
    /\ pc' = "done"
    /\ UNCHANGED <<input, api, pos, sch, stream, last>>

NextSkip == call_try_skip

SpecSkip == InitSkip /\ [][NextSkip]_vars

\* C25: try_skip(p) never returns a recoverable error.  When p succeeds it
\* returns Some of p's output and p's remaining input; when p fails
\* recoverably it returns None and the input from where p's error was raised
\* on, so that what p consumed before it failed stays consumed; a hard
\* failure of p stays a hard failure of the same position and kind.
C25_TrySkipNeverFailsRecoverably ==
    pc = "done" =>
        /\ result.tag # "Error"
        /\ \E r \in {key_value(api, 0, input, 1)} :
              /\ r.tag = "Ok" =>
                    /\ result.tag = "Ok" /\ result.out.some
                    /\ result.out.kv = r.out /\ result.pos = r.pos
              /\ r.tag = "Error" =>
                    /\ result.tag = "Ok" /\ ~result.out.some
                    /\ result.pos = r.err.at
              /\ r.tag = "Failure" =>
                    /\ result.tag = "Failure"
                    /\ result.err.at = r.err.at
                    /\ result.err.kind = [k |-> "Nom", v |-> r.err.kind]
        /\ \E e \in {ScanWhile(input, 1, KeyChars)} :
              (e > Len(input) \/ input[e] # "=") =>
                  /\ result.tag = "Ok" /\ ~result.out.some
                  /\ result.pos = e

\* aa= : the key and the "=" are read, the value is missing; None, and the
\* three characters stay consumed.
C25_Witness ==
    /\ pc = "done"
    /\ input = <<"a", "a", "=">>
    /\ result.tag = "Ok"
    /\ ~result.out.some
    /\ result.pos = 4

----------------------------------------------------------------------------
(* The loop of attributes, one iteration at a time                         *)

MaxAttrLen == 6

AttrChars == {"a", "b", "=", "\"", " "}

\* pos is the start of the remaining input, last the map built so far.
InitAttributes ==
    /\ input \in SeqsUpTo(AttrChars, MaxAttrLen)
    /\ api \in {"str", "span"}
    /\ pc = "loop"
    /\ pos = 1
    /\ sch = Nil
    /\ stream = <<>>
    /\ last = EmptyMap
    /\ result = Nil

\* One turn of the while loop: the match on preceded(.., try_skip(key_value)).
iterate ==
    /\ pc = "loop"
    /\ pos <= Len(input)
    /\ \E r \in {attributes_iteration(api, 0, input, pos, last)} :
          IF r.tag = "Ok"
          THEN /\ pos' = r.pos
               /\ last' = r.out
               /\ UNCHANGED <<pc, result>>
          ELSE /\ result' = r
               /\ pc' = "done"
               /\ UNCHANGED <<pos, last>>
    /\ UNCHANGED <<input, api, sch, stream>>

\* The loop condition fails: Ok((input, attrs)).
return_attrs ==
    /\ pc = "loop"
    /\ pos > Len(input)
    /\ result' = Ok(pos, last)
    /\ pc' = "done"
    /\ UNCHANGED <<input, api, pos, sch, stream, last>>

NextAttributes == iterate \/ return_attrs

SpecAttributes == InitAttributes /\ [][NextAttributes]_vars

\* Where the value that starts at v ends in a buffer without backslashes:
\* behind its closing quote, or behind its run of value characters; 0 if no
\* value starts at v, -1 if a quote opens at v and none closes it.
ValueEnd(t, v) ==
    IF v > Len(t) THEN 0
    ELSE IF t[v] = "\""
    THEN Only({IF cs = {} THEN -1
               ELSE 1 + (CHOOSE c \in cs : \A d \in cs : c <= d) :
               cs \in {{c \in (v + 1)..Len(t) : t[c] = "\""}}})
    ELSE IF t[v] \in ValueChars THEN ScanWhile(t, v, ValueChars)
    ELSE 0

Open == [ks |-> 0, ke |-> 0, vs |-> 0, ve |-> 0]

RECURSIVE WellFormedPairs(_, _)
\* The well-formed pairs of t from p on, as bounds [ks, ke) of the key and
\* [vs, ve) of the value, in the order of the text.  A token is a run of key
\* characters; one with no "=" behind it or no value behind the "=" gives no
\* pair; an unterminated quote ends the list with the marker Open.
WellFormedPairs(t, p) ==
    Only({IF q > Len(t) THEN <<>>
          ELSE IF e > Len(t) \/ t[e] # "=" THEN WellFormedPairs(t, e)
          ELSE Only({IF w = -1 THEN <<Open>>
                     ELSE IF w = 0 THEN WellFormedPairs(t, e + 1)
                     ELSE IF t[e + 1] = "\""
                     THEN <<[ks |-> q, ke |-> e, vs |-> e + 2, ve |-> w - 1]>>
                              \o WellFormedPairs(t, w)
                     ELSE <<[ks |-> q, ke |-> e, vs |-> e + 1, ve |-> w]>>
                              \o WellFormedPairs(t, w) :
                     w \in {ValueEnd(t, e + 1)}}) :
          q \in {ScanNonKey(t, p)}, e \in {ScanWhile(t, ScanNonKey(t, p), KeyChars)}})

RECURSIVE Collected(_, _, _, _)
\* The map that holds the pairs ps[1..n] of t, inserted in their order.
Collected(a_api, t, ps, n) ==
    IF n = 0 THEN EmptyMap
    ELSE insert(Collected(a_api, t, ps, n - 1),
                MkSpan(a_api, 0, t, ps[n].ks, ps[n].ke),
                MkSpan(a_api, 0, t, ps[n].vs, ps[n].ve))

\* C26: attributes extracts exactly the well-formed key=value pairs of its
\* input.  A token that starts like a key but has no "=" or no value gives
\* no entry and does not stop the scan, every later well-formed pair is still
\* extracted, and attributes fails only when key_value fails hard (a quoted
\* value that is not closed), never with a recoverable error.
C26_ExactlyTheWellFormedPairs ==
    pc = "done" =>
        \E ps \in {WellFormedPairs(input, 1)} :
            /\ result.tag # "Error"
            /\ result.tag = "Failure" <=> (ps # <<>> /\ ps[Len(ps)] = Open)
            /\ result.tag = "Ok" => result.out = Collected(api, input, ps, Len(ps))
            /\ result = attributes(api, 0, input)

\* a b=a : the token a has no "=", the pair b=a behind it is extracted.
C26_Witness ==
    /\ pc = "done"
    /\ api = "str"
    /\ input = <<"a", " ", "b", "=", "a">>
    /\ result.tag = "Ok"
    /\ result.out = insert(EmptyMap, [off |-> 0, text |-> <<"b">>],
                           [off |-> 0, text |-> <<"a">>])

----------------------------------------------------------------------------
(* Termination of the loop of attributes                                   *)

\* The loop runs on without interruption until it returns.
FairSpecAttributes == SpecAttributes /\ WF_vars(NextAttributes)

\* C27: the loop of attributes terminates on every input.  Every iteration
\* that does not fail hard strictly shortens the remaining input, the loop
\* returns Ok only with nothing remaining, and so the prop that property
\* takes from consumed(attributes) is the whole brace content.
C27_AttributesLoopTerminates ==
    /\ <>(pc = "done")
    /\ [][pc' = "loop" => pos < pos' /\ pos' <= Len(input) + 1]_vars
    /\ [](pc = "done" /\ result.tag = "Ok" =>
            /\ result.pos = Len(input) + 1
            /\ \E r \in {property(api, <<"{">> \o input \o <<"}">>, 1)} :
                  r.tag = "Ok" /\ r.out.prop.text = input)

\* "a b=a " is used up in three iterations (the token a, the pair b=a, the
\* blank at the end): the map holds the pair and nothing remains.
C27_Witness ==
    /\ pc = "done"
    /\ input = <<"a", " ", "b", "=", "a", " ">>
    /\ result.tag = "Ok"
    /\ result.pos = 7
    /\ DOMAIN result.out # {}

----------------------------------------------------------------------------
(* The order of the escape alternatives in a quoted value                  *)

\* The first backslash of the quoted content (0 if it has none): with no
\* quote before it, it is the first control character the scanner meets.
FirstControl(t) ==
    Only({IF bs = {} THEN 0 ELSE CHOOSE i \in bs : \A j \in bs : i <= j :
          bs \in {{i \in 4..Len(t) : t[i] = "\\" /\ \A j \in 4..(i - 1) : t[j] # "\""}}})

\* C28: behind the control backslash the alternatives are tried in the order
\* backslash-quote, backslash, {, }, so the three characters \\" are taken
\* as one escape.  A quoted value whose content ends with an escaped
\* backslash directly before its closing quote is therefore not ended by that
\* quote: the value goes on behind it, and the parse fails hard when no later
\* quote follows.
C28_BackslashQuoteTriedFirst ==
    pc = "done" =>
        \E i \in {FirstControl(input)} :
            (/\ i > 0
             /\ i + 2 <= Len(input)
             /\ input[i + 1] = "\\"
             /\ input[i + 2] = "\"") =>
                /\ result.tag # "Error"
                /\ result.tag = "Ok" =>
                      /\ result.pos > i + 3
                      /\ Len(result.out.v.text) >= i - 1
                      /\ SubSeq(result.out.v.text, 1, i - 1) = SubSeq(input, 4, i + 2)
                /\ (\A j \in (i + 3)..Len(input) : input[j] # "\"") =>
                      result.tag = "Failure"

\* k="b\\" : the quote belongs to the escape, the value is not closed.
C28_Witness ==
    /\ pc = "done"
    /\ input = <<"k", "=", "\"", "b", "\\", "\\", "\"">>
    /\ result.tag = "Failure"
    /\ result.err.kind = "Char"
    /\ result.err.at = 8

----------------------------------------------------------------------------
(* What add_object leaves alone                                            *)

\* The step from schematic S to schematic S2 by an object with tag letter c
\* and value v touches the slot or the sequence of c alone.
TouchesOnly(S, S2, c, v) ==
    /\ S2.version = S.version
    /\ \A d \in SlotLetters \ {c} : SlotOf(S2, d) = SlotOf(S, d)
    /\ \A d \in SequenceLetters \ {c} : SequenceOf(S2, d) = SequenceOf(S, d)
    /\ c \in SlotLetters => SlotOf(S2, c) = Some(v)
    /\ c \in SequenceLetters =>
          /\ Len(SequenceOf(S2, c)) = Len(SequenceOf(S, c)) + 1
          /\ \A i \in 1..Len(SequenceOf(S, c)) : SequenceOf(S2, c)[i] = SequenceOf(S, c)[i]
          /\ SequenceOf(S2, c)[Len(SequenceOf(S2, c))] = v

\* C29: add_object with an object of one kind changes the slot or the
\* sequence of that kind only.  The version, every other slot and every other
\* sequence are as before, the elements of the sequence keep their positions
\* and the sequence is longer by exactly one element.
C29_AddObjectTouchesOneField ==
    [][Len(stream') = Len(stream) + 1 =>
          /\ stream'[Len(stream')].letter \in SlotLetters \cup SequenceLetters
          /\ TouchesOnly(sch, sch', stream'[Len(stream')].letter,
                         stream'[Len(stream')].val)]_vars

\* A wire, a spice property and a second wire have been added: the second
\* wire stands behind the first and the spice property is still in its slot.
C29_Witness ==
    /\ pc = "fold"
    /\ Len(stream) = 3
    /\ stream[1].letter = "N" /\ stream[2].letter = "S" /\ stream[3].letter = "N"
    /\ sch.wires = <<stream[1].val, stream[3].val>>
    /\ sch.spice_property = Some(stream[2].val)
    /\ sch.lines = <<>>

----------------------------------------------------------------------------
(* The error of a key_value that fails hard inside attributes              *)

\* C30: when key_value fails hard inside attributes, the error that reaches
\* the caller of property is the one try_skip rebuilds from the position of
\* the failure and its nom kind alone: a leaf of that nom kind, not of the
\* expected character, with no frame of key, value or key_value, and none of
\* "property" either, which wraps property_string only.  The frames it gains
\* afterwards are those of the object parsers around the property.
C30_HardFailureRebuiltByTrySkip ==
    pc = "done" =>
        \E b \in {brace_enclosed(input, 1, "property")} :
            b.tag = "Ok" =>
                \E t \in {SubSeq(input, b.out.from, b.out.to - 1)} :
                    attributes(api, b.out.from - 1, t).tag # "Ok" =>
                        /\ result.tag = "Failure"
                        /\ result.err.kind.k = "Nom"
                        /\ result.err.kind.v \in {"Char", "Escaped"}
                        /\ result.err.context = <<>>
                        /\ \E p \in 1..Len(t) :
                              \E r \in {key_value(api, b.out.from - 1, t, p)} :
                                  /\ r.tag = "Failure"
                                  /\ b.out.from - 1 + r.err.at = result.err.at
                                  /\ r.err.kind = result.err.kind.v
                        /\ \E o \in {property_object(api, <<"K", " ">> \o input, 1, "K")} :
                              /\ o.tag = "Failure"
                              /\ o.err.at = result.err.at + 2
                              /\ o.err.kind = result.err.kind
                              /\ FrameNames(o.err) = <<"global property">>

\* {a="} : the quote is never closed; the error is the bare nom kind Char at
\* the place the closing quote is missing.
C30_Witness ==
    /\ pc = "done"
    /\ input = <<"{", "a", "=", "\"", "}">>
    /\ result.tag = "Failure"
    /\ result.err = [at |-> 5, kind |-> [k |-> "Nom", v |-> "Char"], context |-> <<>>]

====
